---- MODULE Spec2Model ----
(***************************************************************************)
(* A model of the ipfs-search crawler worker (components/crawler) and of   *)
(* the sniffer pipeline (components/sniffer).                              *)
(*                                                                         *)
(* Part I models Crawler.Crawl as it is run by the workers of the pool:    *)
(* the lookup of an existing document, the update policy, Stat, the        *)
(* extractor chain, the directory expander (an Ls producer and an entry    *)
(* consumer joined by the entries channel under an errgroup) and the       *)
(* writes that go through the bulk indexer to the four indexes.            *)
(*                                                                         *)
(* Part II models Sniffer.Sniff: the supervisor loop, the errgroup of one  *)
(* iteration and its three stages subscribe, filter and queue, joined by   *)
(* the sniffed and filtered channels. The stream filter, the queuer, the   *)
(* provider filters and the event bus are not part of the sources at hand; *)
(* they are modelled after sections 4.3 to 4.5 and 5 of the specification. *)
(***************************************************************************)
EXTENDS Integers, Sequences, FiniteSets, TLC

VARIABLES
    \* ---- crawler -------------------------------------------------------
    now,         \* wall clock, in ticks of half a second
    maxDirSize,  \* config.MaxDirSize of this run
    minUpdateAge,\* config.MinUpdateAge of this run, in ticks
    workers,     \* the workers of the pool
    inputs,      \* the deliveries the queues may hand to a worker
    kids,        \* the children of a directory, as Ls lists them: <<CID, type>>
    draws,       \* the values rand.Intn(7) takes in this run
    budget,      \* deliveries still to be handed out
    idx,         \* search backend: index name -> (CID -> document)
    issued,      \* every item added to the bulk indexer, in order of Add
    flushed,     \* how many items of issued the bulk indexer has flushed
    queued,      \* every message published to the three queues, in order
    pc,          \* per worker: position in Crawl
    res,         \* per worker: the AnnotatedResource r being crawled
    job,         \* per worker: number of the delivery being processed
    found,       \* per worker: the existingItem read from the backend
    dir,         \* per worker: state of crawlDir
    extract,     \* per worker: what the extractors that ran returned, in order
    ret,         \* per worker: what Crawl returned
    invalid,     \* per worker: the error Crawl classified as ErrInvalidResource
    \* ---- sniffer -------------------------------------------------------
    ctxErr,      \* ctx.Err() of the context Sniff was called with
    sup,         \* position of Sniff: start, iterate, sleep, returned, panic
    sniffRet,    \* what Sniff returned
    iteration,   \* calls of iterate so far
    restarts,    \* the errors Sniff logged before it restarted
    errg,        \* the errgroup of the current iteration
    stage,       \* per stage: its position
    held,        \* per stage: the event or provider in its hands
    feed,        \* the keys the DHT node puts, in order
    fed,         \* how many of them it has put
    bus,         \* the buffer of the bus subscription
    taken,       \* events the subscriber has received from the bus
    sniffed,     \* channel sniffed
    filtered,    \* channel filtered
    closed,      \* filtered has been closed
    cache,       \* LastSeenFilter: <<CID, time of insertion>>, oldest first
    rejected,    \* providers the filters have rejected
    published,   \* the CIDs the broker has received, in order
    puts,        \* the calls of afterPut: key, write error, emit result, return
    \* ---- commands ------------------------------------------------------
    command,     \* the command the process runs: crawl or add
    cmd,         \* position of the command's Action
    started,     \* pool.Start has been called
    ctxDone,     \* the context of the command has been cancelled
    cancels,     \* calls of the cancel function made by onSigTerm
    signals,     \* SIGINT/SIGTERM delivered to the process so far
    sigChan,     \* signals buffered in sigChan
    received,    \* signals received from sigChan
    quit,        \* position of the goroutine quit
    fail,        \* position of the goroutine fail
    exit,        \* how the process ended: exit code and who ended it
    \* ---- LastSeenFilter on its own -------------------------------------
    clock,       \* the time of the filter, in ticks
    lastCall,    \* the last call of Seen: CID, time, result, cache before it
    recorded,    \* per CID: the time Seen recorded it last, or NoTime
    \* ---- bulk indexer with its flush workers ---------------------------
    numWorkers,  \* BulkIndexerConfig.NumWorkers
    submitted,   \* writes the thread has submitted so far
    biQueue,     \* the queue between Add and the flush workers
    biBuf,       \* per flush worker: the items in its buffer
    applied,     \* the writes the backend has applied, in order
    \* ---- subscription --------------------------------------------------
    subClosed,   \* the channel sub.Out() of the subscription has been closed
    \* ---- direct get ----------------------------------------------------
    gets         \* the calls of the direct Index.Get: response and result

crawlVars == <<now, maxDirSize, minUpdateAge, workers, inputs, kids, draws, budget, idx, issued,
               flushed, queued, pc, res, job, found, dir, extract, ret, invalid>>

config == <<maxDirSize, minUpdateAge, workers, inputs, kids, draws>>

sniffVars == <<ctxErr, sup, sniffRet, iteration, restarts, errg, stage, held, feed, fed,
               bus, taken, sniffed, filtered, closed, cache, rejected, published,
               puts>>

cmdVars == <<command, cmd, started, ctxDone, cancels, signals, sigChan, received, quit, fail,
             exit>>

lsfVars == <<clock, lastCall, recorded>>

biVars == <<numWorkers, submitted, biQueue, biBuf, applied>>

subVars == <<subClosed>>

getVars == <<gets>>

vars == <<crawlVars, sniffVars, cmdVars, lsfVars, biVars, subVars, getVars>>

(***************************************************************************)
(* Bounds of the model.                                                    *)
(***************************************************************************)
MaxClock == 2          \* the clock stops after this many ticks
MaxChildren == 2       \* children of a directory in CrawlSpec
MaxDirSizeBound == 1   \* MaxDirSize is drawn from 0..MaxDirSizeBound
MaxMinUpdateAge == 1   \* MinUpdateAge is drawn from 0..MaxMinUpdateAge
MaxEvents == 4         \* keys the DHT node puts in one run
MaxIterations == 2     \* iterations Sniff starts while its context is live
MaxPuts == 2           \* calls of afterPut in PutSpec
MaxSignals == 3        \* signals sent to the process
MaxFilterClock == 3    \* the last tick of the clock in FilterSpec
MaxGets == 2           \* calls of the direct Index.Get in GetSpec
MaxWrites == 3         \* writes the thread submits in BulkSpec
MaxFlushWorkers == 2   \* NumWorkers is drawn from 1..MaxFlushWorkers
MaxCrawls == 2         \* deliveries of one CID in SeqSpec
MaxListing == 3        \* children of a directory in PanicSpec
NumExtractors == 2     \* len(c.extractors): extractors of the chain
bufSize == 1           \* buffer of the bus subscription (512 in eventsource.go)

(***************************************************************************)
(* Program constants.                                                      *)
(***************************************************************************)
TicksPerSecond == 2        \* time.Second in clock ticks
DirEntryBufferSize == 1    \* config.DirEntryBufferSize
MaxPriority == 7           \* rand.Intn(7)
BufferSize == 1            \* config.BufferSize of the sniffer
SigChanSize == 2           \* make(chan os.Signal, 2)
LastSeenPruneLen == 2      \* config.LastSeenPruneLen
LastSeenExpiration == 2    \* config.LastSeenExpiration, in ticks

(***************************************************************************)
(* types: ResourceType, SourceType, Protocol.                              *)
(***************************************************************************)
UndefinedType == "undefined"
FileType == "file"
DirectoryType == "directory"
PartialType == "partial"
UnsupportedType == "unsupported"

InvalidProtocol == "invalid"
IPFSProtocol == "ipfs"

UnknownSource == "unknown"
SnifferSource == "sniffer"
DirectorySource == "directory"
ManualSource == "manual"
UserSource == "user"

NoParent == "nil"
NoTime == -1

\* The CIDs of the model. A CID addresses content, so what it is (a file, a
\* directory, something unsupported) is a function of the CID.
IDs == {"QmF", "QmD", "QmU"}
Parents == {"QmP"}
Names == {"a"}

Kind(id) ==
    CASE id = "QmF" -> FileType
      [] id = "QmD" -> DirectoryType
      [] OTHER -> UnsupportedType

SizeOf(id) == IF id = "QmF" THEN 100 ELSE 0

(***************************************************************************)
(* Errors. ErrDirectoryTooLarge wraps ErrInvalidResource; so do the error  *)
(* getFileProperties makes of ErrFileTooLarge, ErrUnsupportedType and an   *)
(* invalid Stat result.                                                    *)
(***************************************************************************)
Nil == "nil"
ErrDirectoryTooLarge == "directory too large"
ErrFileTooLarge == "file too large"
ErrUnsupportedType == "unsupported type"
ErrInvalidStat == "invalid resource"
ErrExtractor == "unexpected response"
ErrStat == "stat error"
ErrLs == "ls error"
ErrPublish == "publish error"
ErrIndexer == "bulk indexer error"
ErrGet == "get error"
ErrDeadline == "context deadline exceeded"
ErrBus == "reading from event bus"
ErrCanceled == "context canceled"
ErrWrite == "datastore write error"
ErrParse == "parse error"
ErrEmit == "emit error"
errEndOfLs == "end of list"
Panic == "panic"
Running == "running"

\* errors.Is(err, t.ErrInvalidResource)
IsInvalidResource(err) ==
    err \in {ErrDirectoryTooLarge, ErrFileTooLarge, ErrUnsupportedType, ErrInvalidStat}

(***************************************************************************)
(* Indexes, documents and bulk indexer items.                              *)
(***************************************************************************)
Files == "files"
Directories == "directories"
Invalids == "invalids"
Partials == "partials"
IndexNames == {Files, Directories, Invalids, Partials}
NoIndex == "none"

Hashes == "hashes"

EmptyDoc ==
    [FirstSeen |-> NoTime, LastSeen |-> NoTime, References |-> <<>>,
     Size |-> 0, Links |-> <<>>, Error |-> Nil]

DocFields == {"FirstSeen", "LastSeen", "References", "Size", "Links", "Error"}

\* now.Truncate(time.Second)
Truncate(t) == t - (t % TicksPerSecond)

\* A faulty variant of makeDocument that does not truncate LastSeen.
makeDocument_lastSeenNow(r, t) ==
    [EmptyDoc EXCEPT
        !.FirstSeen = Truncate(t),
        !.LastSeen = t,
        !.References = IF r.Parent # NoParent
                       THEN << <<r.Parent, r.Name>> >>
                       ELSE <<>>,
        !.Size = r.Size]

\* A faulty variant of makeDocument that leaves the reference out.
makeDocument_withoutReference(r, t) ==
    [EmptyDoc EXCEPT !.FirstSeen = Truncate(t), !.LastSeen = Truncate(t), !.Size = r.Size]

\* index.go: makeDocument
makeDocument(r, t) ==
    [EmptyDoc EXCEPT
        !.FirstSeen = Truncate(t),
        !.LastSeen = Truncate(t),
        !.References = IF r.Parent # NoParent
                       THEN << <<r.Parent, r.Name>> >>
                       ELSE <<>>,
        !.Size = r.Size]

\* An item of the bulk indexer: Index.index builds it, bulkIndexer.Add queues it.
Item(action, index, id, body, fields, j) ==
    [action |-> action, index |-> index, id |-> id, body |-> body,
     fields |-> fields, job |-> j]

\* Index.Index / Index.Update / Index.Delete
IndexItem(index, id, doc, j) == Item("create", index, id, doc, DocFields, j)
UpdateItem(index, id, doc, fields, j) == Item("update", index, id, doc, fields, j)
DeleteItem(index, id, j) == Item("delete", index, id, EmptyDoc, {}, j)

\* A faulty variant of InvalidItem that writes the marker to Partials.
InvalidItem_toPartials(r, err, j) ==
    IndexItem(Partials, r.ID, [EmptyDoc EXCEPT !.Error = err], j)

\* index.go: indexInvalid
InvalidItem(r, err, j) ==
    IndexItem(Invalids, r.ID, [EmptyDoc EXCEPT !.Error = err], j)

Merge(old, body, fields) ==
    [f \in DocFields |-> IF f \in fields THEN body[f] ELSE old[f]]

Put(m, id, doc) ==
    [c \in DOMAIN m \cup {id} |-> IF c = id THEN doc ELSE m[c]]

Remove(m, id) == [c \in DOMAIN m \ {id} |-> m[c]]

\* A faulty variant of ApplyItem where create replaces a stored document.
ApplyItem_overwrites(ix, it) ==
    LET m == ix[it.index] IN
    CASE it.action = "create" -> [ix EXCEPT ![it.index] = Put(m, it.id, it.body)]
      [] it.action = "update" ->
            IF it.id \in DOMAIN m
            THEN [ix EXCEPT ![it.index] =
                    Put(m, it.id, Merge(m[it.id], it.body, it.fields))]
            ELSE ix
      [] OTHER -> [ix EXCEPT ![it.index] = Remove(m, it.id)]

\* What the search backend does with one flushed item: create is
\* create-if-absent, update is a partial update of an existing document.
ApplyItem(ix, it) ==
    LET m == ix[it.index] IN
    CASE it.action = "create" ->
            IF it.id \in DOMAIN m THEN ix
            ELSE [ix EXCEPT ![it.index] = Put(m, it.id, it.body)]
      [] it.action = "update" ->
            IF it.id \in DOMAIN m
            THEN [ix EXCEPT ![it.index] =
                    Put(m, it.id, Merge(m[it.id], it.body, it.fields))]
            ELSE ix
      [] OTHER -> [ix EXCEPT ![it.index] = Remove(m, it.id)]

NoItem == [index |-> NoIndex, References |-> <<>>, LastSeen |-> NoTime]

\* getExistingItem: the indexes that hold the CID, with References and LastSeen.
ExistingItems(ix, id) ==
    LET hits == {i \in IndexNames : id \in DOMAIN ix[i]} IN
    IF hits = {} THEN {NoItem}
    ELSE {[index |-> i, References |-> ix[i][id].References,
           LastSeen |-> ix[i][id].LastSeen] : i \in hits}

AllWorkers == {"w1", "w2"}

\* The children a directory can have: typed by what the CID is, or of unknown
\* type.
Children ==
    <<<<"QmF", FileType>>, <<"QmD", DirectoryType>>, <<"QmU", UnsupportedType>>,
      <<"QmF", UndefinedType>>>>

\* The listings of n children: n consecutive children, from any first one.
Listings(n) ==
    {[i \in 1..n |-> Children[((first + i - 2) % Len(Children)) + 1]] :
        first \in 1..Len(Children)}

(***************************************************************************)
(* Crawler.                                                                *)
(***************************************************************************)
\* A faulty variant of isSupportedType that accepts every type.
isSupportedType_any(rType) == rType = rType

\* crawler.go: isSupportedType
isSupportedType(rType) == rType \in {UndefinedType, FileType, DirectoryType}

Resource(protocol, id, type, source, parent, name) ==
    [Protocol |-> protocol, ID |-> id, Type |-> type, Source |-> source,
     Parent |-> parent, Name |-> name, Size |-> 0]

NoResource == Resource(InvalidProtocol, "", UndefinedType, UnknownSource, NoParent, "")

NoDir ==
    [listed |-> <<>>, recvd |-> 0, closed |-> FALSE, lsRet |-> Running,
     producer |-> Running, consumer |-> Running, dirCnt |-> 0, isLarge |-> FALSE,
     Links |-> <<>>, ctxDone |-> FALSE, err |-> Nil, priority |-> 0, seen |-> 0,
     panicVar |-> Nil]

\* The deliveries a queue can hold for the CIDs in ids: sniffed and manually
\* added hashes carry no reference, directory entries carry their parent (or,
\* what appendReference provides for, none).
Provenances ==
    {<<SnifferSource, NoParent, "">>, <<UnknownSource, NoParent, "">>,
     <<ManualSource, NoParent, "">>, <<DirectorySource, NoParent, "">>}
        \cup {<<DirectorySource, p, n>> : p \in Parents, n \in Names}

ValidDeliveries(ids) ==
    {Resource(IPFSProtocol, i, t, s[1], s[2], s[3]) :
        i \in ids, t \in {UndefinedType, FileType, DirectoryType}, s \in Provenances}

Deliveries(ids) ==
    {r \in ValidDeliveries(ids) : r.Type \in {UndefinedType, Kind(r.ID)}}
        \cup {Resource(InvalidProtocol, "QmF", UndefinedType, SnifferSource, NoParent, ""),
              Resource(IPFSProtocol, "QmU", UnsupportedType, SnifferSource, NoParent, ""),
              Resource(IPFSProtocol, "QmF", PartialType, SnifferSource, NoParent, "")}

\* bulkIndexer.Add: the item is queued, or Add fails and nothing is queued.
Add(item, ok) == IF ok THEN issued' = Append(issued, item) ELSE issued' = issued

AddResult(ok) == IF ok THEN Nil ELSE ErrIndexer

Return(w, e) ==
    /\ pc' = [pc EXCEPT ![w] = "done"]
    /\ ret' = [ret EXCEPT ![w] = e]

\* crawler.go: Crawl, up to and including the read of updateMaybeExisting.
Crawl(w, r) ==
    /\ w \in workers
    /\ r \in inputs
    /\ pc[w] \in {"idle", "done"}
    /\ budget > 0
    /\ budget' = budget - 1
    /\ job' = [job EXCEPT ![w] = budget]
    /\ res' = [res EXCEPT ![w] = r]
    /\ dir' = [dir EXCEPT ![w] = NoDir]
    /\ extract' = [extract EXCEPT ![w] = <<>>]
    /\ invalid' = [invalid EXCEPT ![w] = Nil]
    /\ IF r.Protocol = InvalidProtocol \/ ~isSupportedType(r.Type)
       THEN /\ Return(w, Panic)
            /\ UNCHANGED found
       ELSE \/ \E e \in ExistingItems(idx, r.ID) :
                /\ found' = [found EXCEPT ![w] = e]
                /\ pc' = [pc EXCEPT ![w] = "updateMaybeExisting"]
                /\ UNCHANGED ret
            \/ /\ Return(w, ErrGet)
               /\ UNCHANGED found
    /\ UNCHANGED <<now, config, idx, issued, flushed, queued, sniffVars, cmdVars, lsfVars, biVars, subVars, getVars>>


Goto(w, label) ==
    /\ pc' = [pc EXCEPT ![w] = label]
    /\ UNCHANGED ret

\* update.go: updateMaybeExisting, existing == nil
notExisting(w) ==
    /\ pc[w] = "updateMaybeExisting"
    /\ found[w].index = NoIndex
    /\ Goto(w, "ensureType")
    /\ UNCHANGED <<now, config, budget, idx, issued, flushed, queued, res, job, found, dir, extract, invalid, sniffVars, cmdVars, lsfVars, biVars, subVars, getVars>>

\* A faulty variant of appendReference that appends without a comparison.
appendReference_unchecked(refs, r) ==
    IF r.Parent = NoParent THEN <<refs, FALSE>>
    ELSE <<Append(refs, <<r.Parent, r.Name>>), TRUE>>

\* A faulty variant of appendReference that compares the parent only.
appendReference_parentOnly(refs, r) ==
    IF r.Parent = NoParent THEN <<refs, FALSE>>
    ELSE IF \E n \in 1..Len(refs) : refs[n][1] = r.Parent
         THEN <<refs, FALSE>>
         ELSE <<Append(refs, <<r.Parent, r.Name>>), TRUE>>

\* update.go: appendReference
appendReference(refs, r) ==
    IF r.Parent = NoParent THEN <<refs, FALSE>>
    ELSE IF \E n \in 1..Len(refs) : refs[n] = <<r.Parent, r.Name>>
         THEN <<refs, FALSE>>
         ELSE <<Append(refs, <<r.Parent, r.Name>>), TRUE>>

\* A faulty variant of updateExistingItem whose age test is not strict.
updateExistingItem_notStrict(r, i, t, j) ==
    CASE r.Source = DirectorySource ->
            LET a == appendReference(i.References, r) IN
            IF a[2]
            THEN {UpdateItem(i.index, r.ID, [EmptyDoc EXCEPT !.References = a[1]],
                             {"References"}, j)}
            ELSE {}
      [] r.Source \in {SnifferSource, UnknownSource} ->
            LET isRecent == IF i.LastSeen = NoTime THEN TRUE
                            ELSE Truncate(t) - i.LastSeen >= minUpdateAge IN
            IF isRecent
            THEN {UpdateItem(i.index, r.ID, [EmptyDoc EXCEPT !.LastSeen = Truncate(t)],
                             {"LastSeen"}, j)}
            ELSE {}
      [] OTHER -> {}

\* A faulty variant of updateExistingItem that treats a manual source as sniffed.
updateExistingItem_manualAsSniffed(r, i, t, j) ==
    CASE r.Source = DirectorySource ->
            LET a == appendReference(i.References, r) IN
            IF a[2]
            THEN {UpdateItem(i.index, r.ID, [EmptyDoc EXCEPT !.References = a[1]],
                             {"References"}, j)}
            ELSE {}
      [] r.Source \in {SnifferSource, UnknownSource, ManualSource} ->
            LET isRecent == IF i.LastSeen = NoTime THEN TRUE
                            ELSE Truncate(t) - i.LastSeen > minUpdateAge IN
            IF isRecent
            THEN {UpdateItem(i.index, r.ID, [EmptyDoc EXCEPT !.LastSeen = Truncate(t)],
                             {"LastSeen"}, j)}
            ELSE {}
      [] OTHER -> {}


\* update.go: the item updateExisting adds, or none.
updateExistingItem(r, i, t, j) ==
    CASE r.Source = DirectorySource ->
            LET a == appendReference(i.References, r) IN
            IF a[2]
            THEN {UpdateItem(i.index, r.ID, [EmptyDoc EXCEPT !.References = a[1]],
                             {"References"}, j)}
            ELSE {}
      [] r.Source \in {SnifferSource, UnknownSource} ->
            LET isRecent == IF i.LastSeen = NoTime THEN TRUE
                            ELSE Truncate(t) - i.LastSeen > minUpdateAge IN
            IF isRecent
            THEN {UpdateItem(i.index, r.ID, [EmptyDoc EXCEPT !.LastSeen = Truncate(t)],
                             {"LastSeen"}, j)}
            ELSE {}
      [] OTHER -> {}

\* update.go: updateExisting calls time.Now() for a sniffed item only.
readsClock(r, i) ==
    /\ i.index \in {Files, Directories}
    /\ r.Source \in {SnifferSource, UnknownSource}

\* A faulty variant of unreferenced that takes every partial as referenced.
unreferenced_never(r) == r.Parent # r.Parent

\* update.go: the test of processPartial, i.Reference.Parent == nil.
unreferenced(r) == r.Parent = NoParent

\* update.go: processExisting, with processPartial, deletePartial and updateExisting.
\* t is what time.Now() returns.
processExisting(w, t, ok) ==
    /\ pc[w] = "updateMaybeExisting"
    /\ found[w].index # NoIndex
    /\ t \in now..MaxClock
    /\ now' = IF readsClock(res[w], found[w]) THEN t ELSE now
    /\ readsClock(res[w], found[w]) \/ t = now
    /\ LET r == res[w]
           i == found[w]
       IN
       CASE i.index = Invalids ->
                /\ ok
                /\ Return(w, Nil)
                /\ UNCHANGED issued
         [] i.index = Partials ->
                IF unreferenced(r)
                THEN /\ ok
                     /\ Return(w, Nil)
                     /\ UNCHANGED issued
                ELSE /\ Add(DeleteItem(Partials, r.ID, job[w]), ok)
                     /\ IF ok THEN Goto(w, "ensureType") ELSE Return(w, ErrIndexer)
         [] OTHER ->
                IF r.Source \notin {DirectorySource, SnifferSource, UnknownSource,
                                    ManualSource, UserSource}
                THEN /\ ok
                     /\ Return(w, Panic)
                     /\ UNCHANGED issued
                ELSE LET u == updateExistingItem(r, i, t, job[w]) IN
                     IF u = {}
                     THEN /\ ok
                          /\ Return(w, Nil)
                          /\ UNCHANGED issued
                     ELSE /\ Add(CHOOSE it \in u : TRUE, ok)
                          /\ Return(w, AddResult(ok))
    /\ UNCHANGED <<config, budget, idx, flushed, queued, res, job, found, dir, extract, invalid, sniffVars, cmdVars, lsfVars, biVars, subVars, getVars>>

\* protocol.Stat: the type (and size) of the CID, a partial result, or an error.
StatResults(id) == {Kind(id), PartialType, ErrInvalidStat, ErrStat}

AllStatResults == UNION {StatResults(id) : id \in IDs}

\* crawler.go: ensureType and what Crawl does with its error.
ensureType(w, stat, ok) ==
    /\ pc[w] = "ensureType"
    /\ stat \in StatResults(res[w].ID)
    /\ LET r == res[w] IN
       IF r.Type # UndefinedType
       THEN /\ stat = Kind(r.ID)
            /\ ok
            /\ Goto(w, "index")
            /\ UNCHANGED <<res, issued, invalid>>
       ELSE CASE stat = ErrInvalidStat ->
                    /\ invalid' = [invalid EXCEPT ![w] = stat]
                    /\ Add(InvalidItem(r, stat, job[w]), ok)
                    /\ Return(w, AddResult(ok))
                    /\ UNCHANGED res
              [] stat = ErrStat ->
                    /\ ok
                    /\ Return(w, stat)
                    /\ UNCHANGED <<res, issued, invalid>>
              [] OTHER ->
                    /\ ok
                    /\ res' = [res EXCEPT ![w].Type = stat, ![w].Size = SizeOf(r.ID)]
                    /\ Goto(w, "index")
                    /\ UNCHANGED <<issued, invalid>>
    /\ UNCHANGED <<now, config, budget, idx, flushed, queued, job, found, dir, extract, sniffVars, cmdVars, lsfVars, biVars, subVars, getVars>>

\* Extractor.Extract: nil, ErrFileTooLarge (ValidateMaxSize) or another error.
ExtractResults == {Nil, ErrFileTooLarge, ErrExtractor}

\* index.go: the loop of getFileProperties over c.extractors; err is overwritten
\* by each extractor and only ErrFileTooLarge leaves the loop.
RECURSIVE extractLoop(_, _, _)
extractLoop(outs, n, err) ==
    IF n > Len(outs) THEN err
    ELSE IF outs[n] = ErrFileTooLarge THEN ErrFileTooLarge
         ELSE extractLoop(outs, n + 1, outs[n])

getFileProperties(outs) == extractLoop(outs, 1, Nil)

\* The extractors that ran: the loop stops at the first ErrFileTooLarge.
Ran(outs) ==
    IF \E n \in DOMAIN outs : outs[n] = ErrFileTooLarge
    THEN SubSeq(outs, 1, CHOOSE n \in DOMAIN outs :
                            /\ outs[n] = ErrFileTooLarge
                            /\ \A m \in 1..(n - 1) : outs[m] # ErrFileTooLarge)
    ELSE outs

\* A faulty variant of indexResult that writes the document it has when the
\* error is no invalid resource, and returns the error.
indexResult_writesPartial(w, index, doc, err, ok) ==
    LET r == res[w] IN
    IF err # Nil
    THEN IF IsInvalidResource(err)
         THEN /\ invalid' = [invalid EXCEPT ![w] = err]
              /\ Add(InvalidItem(r, err, job[w]), ok)
              /\ Return(w, AddResult(ok))
         ELSE /\ ok
              /\ Add(IndexItem(index, r.ID, doc, job[w]), index # NoIndex)
              /\ Return(w, err)
              /\ UNCHANGED invalid
    ELSE /\ Add(IndexItem(index, r.ID, doc, job[w]), ok)
         /\ Return(w, AddResult(ok))
         /\ UNCHANGED invalid

\* index.go: the tail of index(): write the properties, or the invalid marker.
indexResult(w, index, doc, err, ok) ==
    LET r == res[w] IN
    IF err # Nil
    THEN IF IsInvalidResource(err)
         THEN /\ invalid' = [invalid EXCEPT ![w] = err]
              /\ Add(InvalidItem(r, err, job[w]), ok)
              /\ Return(w, AddResult(ok))
         ELSE /\ ok
              /\ Return(w, err)
              /\ UNCHANGED <<issued, invalid>>
    ELSE /\ Add(IndexItem(index, r.ID, doc, job[w]), ok)
         /\ Return(w, AddResult(ok))
         /\ UNCHANGED invalid

\* index.go: index() and getProperties for a file, a partial or an unsupported item.
index(w, t, outs, ok) ==
    /\ pc[w] = "index"
    /\ res[w].Type # DirectoryType
    /\ t \in now..MaxClock
    /\ now' = IF res[w].Type = FileType THEN t ELSE now
    /\ res[w].Type = FileType \/ t = now
    /\ extract' = [extract EXCEPT ![w] = IF res[w].Type = FileType THEN Ran(outs) ELSE <<>>]
    /\ LET r == res[w] IN
       CASE r.Type = FileType ->
                indexResult(w, Files, makeDocument(r, t), getFileProperties(outs), ok)
         [] r.Type = UnsupportedType ->
                /\ outs = [n \in 1..NumExtractors |-> Nil]
                /\ indexResult(w, NoIndex, EmptyDoc, ErrUnsupportedType, ok)
         [] r.Type = PartialType ->
                /\ outs = [n \in 1..NumExtractors |-> Nil]
                /\ indexResult(w, Partials, EmptyDoc, Nil, ok)
         [] OTHER ->
                /\ outs = [n \in 1..NumExtractors |-> Nil]
                /\ ok
                /\ Return(w, Panic)
                /\ UNCHANGED <<issued, invalid>>
    /\ UNCHANGED <<config, budget, idx, flushed, queued, res, job, found, dir, sniffVars, cmdVars, lsfVars, biVars, subVars, getVars>>

(***************************************************************************)
(* Directory expander: crawldir.go.                                        *)
(***************************************************************************)
EntryNames == <<"a", "b", "c", "d", "e", "f">>

\* The entry Ls sends as child number n of directory r.
Entry(r, id, type, n) ==
    [Resource(IPFSProtocol, id, type, DirectorySource, r.ID, EntryNames[n])
        EXCEPT !.Size = SizeOf(id)]

\* crawldir.go: resourceToLinkType
resourceToLinkType(r) ==
    CASE r.Type = FileType -> "File"
      [] r.Type = DirectoryType -> "Directory"
      [] r.Type = UndefinedType -> "Unknown"
      [] r.Type = UnsupportedType -> "Unsupported"
      [] OTHER -> Panic

\* A faulty variant of addLink that puts the link in front.
addLink_inFront(e, links) ==
    <<[Hash |-> e.ID, Name |-> e.Name, Size |-> e.Size, Type |-> resourceToLinkType(e)]>>
        \o links

\* crawldir.go: addLink
addLink(e, links) ==
    Append(links, [Hash |-> e.ID, Name |-> e.Name, Size |-> e.Size,
                   Type |-> resourceToLinkType(e)])

\* A faulty variant of queueOf that publishes files to the Hashes queue.
queueOf_filesToHashes(rType) ==
    CASE rType = UndefinedType -> Hashes
      [] rType = FileType -> Hashes
      [] rType = DirectoryType -> Directories
      [] rType = UnsupportedType -> Invalids
      [] OTHER -> Panic

\* crawldir.go: the switch of queueDirEntry: the queue the entry is published
\* to, or Invalids for the entry that is indexed right away.
queueOf(rType) ==
    CASE rType = UndefinedType -> Hashes
      [] rType = FileType -> Files
      [] rType = DirectoryType -> Directories
      [] rType = UnsupportedType -> Invalids
      [] OTHER -> Panic

Message(queue, e, priority, j) ==
    [queue |-> queue, ID |-> e.ID, Type |-> e.Type, Parent |-> e.Parent,
     Name |-> e.Name, priority |-> priority, job |-> j]

\* A faulty variant of dirEntryPriority that starts at 0.
dirEntryPriority_fromZero(draw) == draw

\* crawldir.go: queueDirEntry, uint8(1 + rand.Intn(7)) for the draw of rand.Intn.
dirEntryPriority(draw) == 1 + draw

\* A faulty variant of GroupReturn that keeps the last error.
GroupReturn_lastError(d, task, e) ==
    [d EXCEPT ![task] = e,
              !.err = IF e # Nil THEN e ELSE @,
              !.ctxDone = @ \/ e # Nil]

\* errgroup: a task of the group returned e; the first error is kept and
\* cancels the context of the group.
GroupReturn(d, task, e) ==
    [d EXCEPT ![task] = e,
              !.err = IF e # Nil /\ @ = Nil THEN e ELSE @,
              !.ctxDone = @ \/ e # Nil]

\* index.go: index() for a directory: getDirectoryProperties makes the document
\* (at time t) and crawlDir starts its two tasks.
crawlDir(w, t) ==
    /\ pc[w] = "index"
    /\ res[w].Type = DirectoryType
    /\ t \in now..MaxClock
    /\ now' = t
    /\ dir' = [dir EXCEPT ![w] = [NoDir EXCEPT !.seen = t]]
    /\ Goto(w, "crawlDir")
    /\ UNCHANGED <<config, budget, idx, issued, flushed, queued, res, job, found, extract, invalid, sniffVars, cmdVars, lsfVars, biVars, subVars, getVars>>

\* protocol.Ls sends the next child on the entries channel.
LsSend(w) ==
    /\ pc[w] = "crawlDir"
    /\ LET d == dir[w] IN
       /\ d.lsRet = Running
       /\ Len(d.listed) < Len(kids)
       /\ Len(d.listed) - d.recvd < DirEntryBufferSize
       /\ dir' = [dir EXCEPT ![w].listed =
                    Append(@, Entry(res[w], kids[Len(d.listed) + 1][1],
                                    kids[Len(d.listed) + 1][2], Len(d.listed) + 1))]
    /\ UNCHANGED <<now, config, budget, idx, issued, flushed, queued, pc, res, job, found, ret, extract, invalid, sniffVars, cmdVars, lsfVars, biVars, subVars, getVars>>

\* protocol.Ls returns; the deferred close(entries) of the producer runs.
LsReturn(w, e) ==
    /\ pc[w] = "crawlDir"
    /\ LET d == dir[w] IN
       /\ d.lsRet = Running
       /\ e \in IF d.ctxDone THEN {ErrCanceled, Nil} ELSE {Nil, ErrLs}
       /\ dir' = [dir EXCEPT ![w].lsRet = e, ![w].closed = TRUE]
    /\ UNCHANGED <<now, config, budget, idx, issued, flushed, queued, pc, res, job, found, ret, extract, invalid, sniffVars, cmdVars, lsfVars, biVars, subVars, getVars>>

\* protocol.Ls panics: the producer task recovers and records the panic, and
\* its deferred close(entries) runs.
LsPanic(w) ==
    /\ pc[w] = "crawlDir"
    /\ LET d == dir[w] IN
       /\ d.lsRet = Running
       /\ dir' = [dir EXCEPT ![w].lsRet = Panic, ![w].closed = TRUE,
                             ![w].panicVar = Panic]
    /\ UNCHANGED <<now, config, budget, idx, issued, flushed, queued, pc, res, job, found, ret, extract, invalid, sniffVars, cmdVars, lsfVars, biVars, subVars, getVars>>

\* protocol.Ls has sent every child and returns nil.
LsDone(w) ==
    /\ Len(dir[w].listed) = Len(kids)
    /\ LsReturn(w, Nil)

\* The producer task hands the result of Ls to the errgroup; a task that
\* recovered from a panic returns nil.
producerReturn(w) ==
    /\ pc[w] = "crawlDir"
    /\ LET d == dir[w] IN
       /\ d.lsRet # Running
       /\ d.producer = Running
       /\ dir' = [dir EXCEPT ![w] =
                    GroupReturn(d, "producer", IF d.lsRet = Panic THEN Nil ELSE d.lsRet)]
    /\ UNCHANGED <<now, config, budget, idx, issued, flushed, queued, pc, res, job, found, ret, extract, invalid, sniffVars, cmdVars, lsfVars, biVars, subVars, getVars>>

\* A faulty variant of processDirEntriesResult that forgets the large flag.
processDirEntriesResult_forgetsLarge(err, isLarge) ==
    IF err = errEndOfLs THEN Nil ELSE err

\* crawldir.go: what processDirEntries returns when its loop ends with err.
processDirEntriesResult(err, isLarge) ==
    IF err = errEndOfLs
    THEN IF isLarge THEN ErrDirectoryTooLarge ELSE Nil
    ELSE err

\* A faulty variant of largeDirectory that counts the entry in hand: the
\* MaxDirSize-th child marks the directory.
largeDirectory_countsEntry(isLarge, dirCnt) == isLarge \/ dirCnt + 1 = maxDirSize

\* A faulty variant of largeDirectory that marks the directory only once the
\* count exceeds MaxDirSize.
largeDirectory_exceeds(isLarge, dirCnt) == isLarge \/ dirCnt > maxDirSize

\* crawldir.go: the cutoff of processNextDirEntry, dirCnt == MaxDirSize.
largeDirectory(isLarge, dirCnt) == isLarge \/ dirCnt = maxDirSize

\* crawldir.go: processNextDirEntry receives an entry: the cutoff, addLink and
\* queueDirEntry; an error ends processDirEntries.
processNextDirEntry(w, draw, ok) ==
    /\ pc[w] = "crawlDir"
    /\ draw \in draws
    /\ LET d == dir[w] IN
       /\ d.consumer = Running
       /\ d.recvd < Len(d.listed)
       /\ queueOf(d.listed[d.recvd + 1].Type) # Panic
       /\ LET entry == d.listed[d.recvd + 1]
              isLarge == largeDirectory(d.isLarge, d.dirCnt)
              links == IF ~isLarge THEN addLink(entry, d.Links) ELSE d.Links
              priority == dirEntryPriority(draw)
              queue == queueOf(entry.Type)
              err == IF ok THEN Nil
                     ELSE IF queue = Invalids THEN ErrIndexer ELSE ErrPublish
              d1 == [d EXCEPT !.recvd = @ + 1, !.dirCnt = @ + 1, !.isLarge = isLarge,
                              !.Links = links, !.priority = priority]
          IN
          /\ IF queue = Invalids
             THEN /\ Add(InvalidItem(entry, ErrUnsupportedType, job[w]), ok)
                  /\ UNCHANGED queued
             ELSE /\ queued' = IF ok
                               THEN Append(queued, Message(queue, entry, priority, job[w]))
                               ELSE queued
                  /\ UNCHANGED issued
          /\ dir' = [dir EXCEPT ![w] =
                        IF err = Nil THEN d1
                        ELSE GroupReturn(d1, "consumer",
                                         processDirEntriesResult(err, isLarge))]
    /\ UNCHANGED <<now, config, budget, idx, flushed, pc, res, job, found, ret, extract, invalid, sniffVars, cmdVars, lsfVars, biVars, subVars, getVars>>

\* crawldir.go: processNextDirEntry receives an entry of an unexpected type:
\* resourceToLinkType or queueDirEntry panics, the consumer task recovers,
\* records the panic and returns nil.
consumerPanic(w) ==
    /\ pc[w] = "crawlDir"
    /\ LET d == dir[w] IN
       /\ d.consumer = Running
       /\ d.recvd < Len(d.listed)
       /\ LET entry == d.listed[d.recvd + 1]
              isLarge == largeDirectory(d.isLarge, d.dirCnt)
          IN
          /\ (~isLarge /\ resourceToLinkType(entry) = Panic) \/ queueOf(entry.Type) = Panic
          /\ dir' = [dir EXCEPT ![w] =
                        GroupReturn([d EXCEPT !.recvd = @ + 1, !.isLarge = isLarge,
                                              !.panicVar = Panic],
                                    "consumer", Nil)]
    /\ UNCHANGED <<now, config, budget, idx, issued, flushed, queued, pc, res, job, found, ret, extract, invalid, sniffVars, cmdVars, lsfVars, biVars, subVars, getVars>>

\* crawldir.go: processNextDirEntry finds the channel closed and drained
\* (errEndOfLs), its context done, or no entry within DirEntryTimeout.
processDirEntriesEnd(w, err) ==
    /\ pc[w] = "crawlDir"
    /\ LET d == dir[w] IN
       /\ d.consumer = Running
       /\ CASE err = errEndOfLs -> d.closed /\ d.recvd = Len(d.listed)
            [] err = ErrCanceled -> d.ctxDone
            [] err = ErrDeadline -> ~d.ctxDone /\ ~d.closed /\ d.recvd = Len(d.listed)
            [] OTHER -> FALSE
       /\ dir' = [dir EXCEPT ![w] =
                    GroupReturn([d EXCEPT !.dirCnt = @ + 1], "consumer",
                                processDirEntriesResult(err, d.isLarge))]
    /\ UNCHANGED <<now, config, budget, idx, issued, flushed, queued, pc, res, job, found, ret, extract, invalid, sniffVars, cmdVars, lsfVars, biVars, subVars, getVars>>

\* crawldir.go: wg.Wait() returns the first error and the deferred function
\* of crawlDir raises a recorded panic again; index.go: index() writes the
\* directory, the invalid marker, or returns the error.
crawlDirWait(w, ok) ==
    /\ pc[w] = "crawlDir"
    /\ LET d == dir[w] IN
       /\ d.producer # Running
       /\ d.consumer # Running
       /\ IF d.panicVar # Nil
          THEN /\ ok
               /\ Return(w, Panic)
               /\ UNCHANGED <<issued, invalid>>
          ELSE indexResult(w, Directories,
                           [makeDocument(res[w], d.seen) EXCEPT !.Links = d.Links],
                           d.err, ok)
    /\ UNCHANGED <<now, config, budget, idx, flushed, queued, res, job, found, dir, extract, sniffVars, cmdVars, lsfVars, biVars, subVars, getVars>>

(***************************************************************************)
(* Bulk indexer.                                                           *)
(***************************************************************************)
\* The bulk indexer flushes its oldest item and the backend applies it.
Flush ==
    /\ flushed < Len(issued)
    /\ flushed' = flushed + 1
    /\ idx' = ApplyItem(idx, issued[flushed + 1])
    /\ UNCHANGED <<now, config, budget, issued, queued, pc, res, job, found, dir, ret, extract, invalid, sniffVars, cmdVars, lsfVars, biVars, subVars, getVars>>

(***************************************************************************)
(* Part II. Sniffer: sniffer.go, eventsource.go, handler.go.               *)
(***************************************************************************)
Stages == {"subscribe", "filter", "queue"}

\* The keys the DHT node can put: provider records of three CIDs, the last of
\* which the CidFilter rejects, and a key that is no provider record.
OtherKey == "/other"
BadCidKey == "/providers/bad-cid"
BadPeerKey == "/providers/QmA/bad-peer"
InvalidCIDs == {"QmX"}
Puts == <<"QmA", "QmB", "QmX", "QmA", OtherKey>>

\* The feeds of n keys: n consecutive keys, from any first one.
Feeds(n) ==
    {[i \in 1..n |-> Puts[((first + i - 2) % Len(Puts)) + 1]] : first \in 1..Len(Puts)}

\* eventsource.go: isProviderKey
isProviderKey(k) == k # OtherKey

\* keyToCID, keyToPeerID: the error of parsing the key.
keyToCID(k) == IF k = BadCidKey THEN ErrParse ELSE Nil
keyToPeerID(k) == IF k = BadPeerKey THEN ErrParse ELSE Nil

\* keyToCID, keyToPeerID: the CID and the PeerID of a key that parses. A key
\* of the model is named after its CID.
cidOf(k) == k
pidOf(k) == IF k = "QmB" THEN "peer2" ELSE "peer1"

\* eventsource.go: EvtProviderPut
EvtProviderPut(cid, pid) == [CID |-> cid, PeerID |-> pid]

\* emitter.Emit: its error.
Emit(ok) == IF ok THEN Nil ELSE ErrEmit

\* A faulty variant of afterPutCall that returns the error of Emit.
afterPutCall_returnsEmitError(k, err, ok) ==
    IF err # Nil THEN [ret |-> err, events |-> <<>>]
    ELSE IF ~isProviderKey(k) THEN [ret |-> Nil, events |-> <<>>]
    ELSE IF keyToCID(k) # Nil THEN [ret |-> Nil, events |-> <<>>]
    ELSE IF keyToPeerID(k) # Nil THEN [ret |-> Nil, events |-> <<>>]
    ELSE [ret |-> Emit(ok), events |-> IF ok THEN <<EvtProviderPut(cidOf(k), pidOf(k))>> ELSE <<>>]

\* A faulty variant of afterPutCall that does not look at the PeerID.
afterPutCall_anyPeer(k, err, ok) ==
    IF err # Nil THEN [ret |-> err, events |-> <<>>]
    ELSE IF ~isProviderKey(k) THEN [ret |-> Nil, events |-> <<>>]
    ELSE IF keyToCID(k) # Nil THEN [ret |-> Nil, events |-> <<>>]
    ELSE [ret |-> Nil,
          events |-> IF ok THEN <<EvtProviderPut(cidOf(k), pidOf(k))>> ELSE <<>>]

\* eventsource.go: afterPut(k, v, err): what it returns and the events it
\* emits. The variable err is assigned by keyToCID and by keyToPeerID; the
\* error of Emit lives in the scope of its if statement, so the final
\* return err returns what keyToPeerID assigned.
afterPutCall(k, err, ok) ==
    IF err # Nil THEN [ret |-> err, events |-> <<>>]
    ELSE IF ~isProviderKey(k) THEN [ret |-> Nil, events |-> <<>>]
    ELSE LET err1 == keyToCID(k) IN
         IF err1 # Nil THEN [ret |-> Nil, events |-> <<>>]
         ELSE LET err2 == keyToPeerID(k) IN
              IF err2 # Nil THEN [ret |-> Nil, events |-> <<>>]
              ELSE [ret |-> err2,
                    events |-> IF Emit(ok) = Nil THEN <<EvtProviderPut(cidOf(k), pidOf(k))>>
                               ELSE <<>>]

\* eventsource.go: afterPut: the events it emits for a successful put of key k.
afterPut(k) == afterPutCall(k, Nil, TRUE).events

\* The bus hands an event to the subscription: the buffer keeps the newest
\* bufSize events and drops the oldest on overflow.
Deliver(buffer, events) ==
    LET all == buffer \o events IN
    IF Len(all) > bufSize THEN SubSeq(all, Len(all) - bufSize + 1, Len(all)) ELSE all

\* A faulty variant of Provider that loses the CID of the event.
Provider_withoutCID(e, t) ==
    [Protocol |-> IPFSProtocol, ID |-> "", Date |-> t]

\* handler.go: the Provider HandleFunc makes of an event.
Provider(e, t) ==
    [Protocol |-> IPFSProtocol, ID |-> e.CID, Date |-> t]

\* A faulty variant of Send that loses the value.
Send_dropping(ch, v) == ch

\* A send on a buffered channel.
Send(ch, v) == Append(ch, v)

\* CidFilter
CidFilter(p) == p.ID \notin InvalidCIDs

\* A faulty variant of Expired that closes the window one tick early.
Expired_early(entry, t) == t - entry[2] >= LastSeenExpiration

\* LastSeenFilter: the entry is older than Expiration at time t.
Expired(entry, t) == t - entry[2] > LastSeenExpiration

RECURSIVE Without(_, _)
Without(entries, cid) ==
    IF entries = <<>> THEN <<>>
    ELSE IF Head(entries)[1] = cid THEN Without(Tail(entries), cid)
         ELSE <<Head(entries)>> \o Without(Tail(entries), cid)

RECURSIVE Unexpired(_, _)
Unexpired(entries, t) ==
    IF entries = <<>> THEN <<>>
    ELSE IF Expired(Head(entries), t) THEN Unexpired(Tail(entries), t)
         ELSE <<Head(entries)>> \o Unexpired(Tail(entries), t)

\* A faulty variant of Prune that expires entries and evicts none.
Prune_expiryOnly(entries, t) ==
    IF Len(entries) <= LastSeenPruneLen THEN entries
    ELSE Unexpired(entries, t)

\* LastSeenFilter, eviction: over PruneLen the expired entries go, then the
\* oldest ones until the cache is at capacity.
Prune(entries, t) ==
    IF Len(entries) <= LastSeenPruneLen THEN entries
    ELSE LET live == Unexpired(entries, t) IN
         IF Len(live) <= LastSeenPruneLen THEN live
         ELSE SubSeq(live, Len(live) - LastSeenPruneLen + 1, Len(live))

\* LastSeenFilter: the CID was inserted within the last Expiration window.
Seen(entries, cid, t) ==
    \E n \in 1..Len(entries) : entries[n][1] = cid /\ ~Expired(entries[n], t)

\* LastSeenFilter: the cache after the provider has gone through the filter.
Record(entries, cid, t) ==
    IF Seen(entries, cid, t) THEN entries
    ELSE Prune(Append(Without(entries, cid), <<cid, t>>), t)

\* MultiFilter(lastSeenFilter, cidFilter): the first rejection wins.
MultiFilter(entries, p) == ~Seen(entries, p.ID, p.Date) /\ CidFilter(p)

NoGroup ==
    [subscribe |-> Running, filter |-> Running, queue |-> Running,
     err |-> Nil, ctxDone |-> FALSE, order |-> <<>>]

\* What a stage has in its hands: nothing, or one event or provider.
NoHeld == [subscribe |-> <<>>, filter |-> <<>>]

\* The context of the stages: done with the parent's or by the errgroup.
CtxDone == ctxErr # Nil \/ errg.ctxDone

Subscribed == sup = "iterate" /\ stage.subscribe \in {"wait", "handle"} /\ ~subClosed

\* A stage returns e to the errgroup.
StageReturn(s, e) ==
    /\ errg' = [GroupReturn(errg, s, e) EXCEPT !.order = Append(@, s)]
    /\ stage' = [stage EXCEPT ![s] = "returned"]

\* The DHT node puts the next key: afterPut emits on the bus; without a
\* subscription the event reaches nobody.
DatastorePut ==
    /\ sup \notin {"returned", "panic"}
    /\ fed < Len(feed)
    /\ fed' = fed + 1
    /\ bus' = IF Subscribed THEN Deliver(bus, afterPut(feed[fed + 1])) ELSE bus
    /\ UNCHANGED <<crawlVars, cmdVars, lsfVars, biVars, subVars, getVars, puts, ctxErr, sup, sniffRet, iteration, restarts, errg, stage, held,
                   feed, taken, sniffed, filtered, closed, cache, rejected, published>>

\* The caller of Sniff cancels its context.
Cancel ==
    /\ ctxErr = Nil
    /\ sup \notin {"returned", "panic"}
    /\ ctxErr' = ErrCanceled
    /\ UNCHANGED <<crawlVars, cmdVars, lsfVars, biVars, subVars, getVars, puts, sup, sniffRet, iteration, restarts, errg, stage, held, feed,
                   fed, bus, taken, sniffed, filtered, closed, cache, rejected, published>>

\* sniffer.go: Sniff calls iterate, the first time or when time.Sleep is over:
\* a new errgroup, a new subscription, a new LastSeenFilter and a new
\* publisher on the channels sniffed and filtered of Sniff.
iterate ==
    /\ sup \in {"start", "sleep"}
    /\ iteration < MaxIterations \/ ctxErr # Nil
    /\ sup' = "iterate"
    /\ iteration' = iteration + 1
    /\ errg' = NoGroup
    /\ stage' = [subscribe |-> "wait", filter |-> "recv", queue |-> "recv"]
    /\ held' = NoHeld
    /\ bus' = <<>>
    /\ subClosed' = FALSE
    /\ cache' = <<>>
    /\ UNCHANGED <<crawlVars, cmdVars, lsfVars, biVars, getVars, puts, ctxErr, sniffRet, restarts, feed, fed, taken, sniffed,
                   filtered, closed, rejected, published>>

\* eventsource.go: iterate receives an event from the subscription.
subscribeRecv ==
    /\ sup = "iterate"
    /\ stage.subscribe = "wait"
    /\ bus # <<>>
    /\ held' = [held EXCEPT !.subscribe = <<Head(bus)>>]
    /\ bus' = Tail(bus)
    /\ taken' = taken + 1
    /\ stage' = [stage EXCEPT !.subscribe = "handle"]
    /\ UNCHANGED <<crawlVars, cmdVars, lsfVars, biVars, subVars, getVars, puts, ctxErr, sup, sniffRet, iteration, restarts, errg, feed, fed,
                   sniffed, filtered, closed, cache, rejected, published>>

\* eventsource.go: iterate finds its context done; Subscribe returns the error
\* and closes the subscription.
subscribeDone ==
    /\ sup = "iterate"
    /\ stage.subscribe = "wait"
    /\ CtxDone
    /\ StageReturn("subscribe", ErrCanceled)
    /\ bus' = <<>>
    /\ UNCHANGED <<crawlVars, cmdVars, lsfVars, biVars, subVars, getVars, puts, ctxErr, sup, sniffRet, iteration, restarts, held, feed, fed,
                   taken, sniffed, filtered, closed, cache, rejected, published>>

\* The bus closes the channel of the subscription while Subscribe runs.
subClose ==
    /\ Subscribed
    /\ subClosed' = TRUE
    /\ UNCHANGED <<crawlVars, sniffVars, cmdVars, lsfVars, biVars, getVars>>

\* eventsource.go: iterate finds the channel of the subscription closed and
\* empty; Subscribe returns the error.
subscribeClosed ==
    /\ sup = "iterate"
    /\ stage.subscribe = "wait"
    /\ bus = <<>>
    /\ subClosed
    /\ StageReturn("subscribe", ErrBus)
    /\ UNCHANGED <<crawlVars, cmdVars, lsfVars, biVars, subVars, getVars, puts, ctxErr, sup, sniffRet,
                   iteration, restarts, held, feed, fed, bus, taken, sniffed, filtered, closed,
                   cache, rejected, published>>

\* handler.go: HandleFunc sends the provider on sniffed.
HandleFunc ==
    /\ sup = "iterate"
    /\ stage.subscribe = "handle"
    /\ Len(sniffed) < BufferSize
    /\ sniffed' = Send(sniffed, Provider(held.subscribe[1], now))
    /\ held' = [held EXCEPT !.subscribe = <<>>]
    /\ stage' = [stage EXCEPT !.subscribe = "wait"]
    /\ UNCHANGED <<crawlVars, cmdVars, lsfVars, biVars, subVars, getVars, puts, ctxErr, sup, sniffRet, iteration, restarts, errg, feed, fed,
                   bus, taken, filtered, closed, cache, rejected, published>>

\* A faulty variant of HandleFuncDone: Subscribe drops the event and goes on
\* with the next one.
HandleFuncDone_goesOn(e) ==
    /\ sup = "iterate"
    /\ stage.subscribe = "handle"
    /\ \/ e = ErrCanceled /\ CtxDone
       \/ e = ErrDeadline /\ Len(sniffed) >= BufferSize
    /\ stage' = [stage EXCEPT !.subscribe = "wait"]
    /\ held' = [held EXCEPT !.subscribe = <<>>]
    /\ UNCHANGED <<crawlVars, cmdVars, lsfVars, biVars, subVars, getVars, puts, ctxErr, sup, sniffRet,
                   iteration, restarts, errg, feed, fed, bus, taken, sniffed, filtered, closed,
                   cache, rejected, published>>

\* handler.go: HandleFunc finds its context done: cancelled, or past
\* handleTimeout with sniffed still full; Subscribe returns the error.
HandleFuncDone(e) ==
    /\ sup = "iterate"
    /\ stage.subscribe = "handle"
    /\ \/ e = ErrCanceled /\ CtxDone
       \/ e = ErrDeadline /\ Len(sniffed) >= BufferSize
    /\ StageReturn("subscribe", e)
    /\ held' = [held EXCEPT !.subscribe = <<>>]
    /\ bus' = <<>>
    /\ UNCHANGED <<crawlVars, cmdVars, lsfVars, biVars, subVars, getVars, puts, ctxErr, sup, sniffRet, iteration, restarts, feed, fed, taken,
                   sniffed, filtered, closed, cache, rejected, published>>

\* streamfilter: Filter receives a provider and applies the filters.
filterRecv ==
    /\ sup = "iterate"
    /\ stage.filter = "recv"
    /\ sniffed # <<>>
    /\ LET p == Head(sniffed) IN
       /\ sniffed' = Tail(sniffed)
       /\ cache' = Record(cache, p.ID, p.Date)
       /\ IF MultiFilter(cache, p)
          THEN /\ held' = [held EXCEPT !.filter = <<p>>]
               /\ stage' = [stage EXCEPT !.filter = "send"]
               /\ UNCHANGED rejected
          ELSE /\ rejected' = rejected + 1
               /\ UNCHANGED <<held, stage>>
    /\ UNCHANGED <<crawlVars, cmdVars, lsfVars, biVars, subVars, getVars, puts, ctxErr, sup, sniffRet, iteration, restarts, errg, feed, fed,
                   bus, taken, filtered, closed, published>>

\* streamfilter: Filter sends the provider on its output; a send on a closed
\* channel panics.
filterSend ==
    /\ sup = "iterate"
    /\ stage.filter = "send"
    /\ IF closed
       THEN /\ sup' = "panic"
            /\ UNCHANGED <<filtered, held, stage>>
       ELSE /\ Len(filtered) < BufferSize
            /\ filtered' = Send(filtered, held.filter[1])
            /\ held' = [held EXCEPT !.filter = <<>>]
            /\ stage' = [stage EXCEPT !.filter = "recv"]
            /\ UNCHANGED sup
    /\ UNCHANGED <<crawlVars, cmdVars, lsfVars, biVars, subVars, getVars, puts, ctxErr, sniffRet, iteration, restarts, errg, feed, fed, bus,
                   taken, sniffed, closed, cache, rejected, published>>

\* streamfilter: Filter finds its context done and terminates: it closes its
\* output; the close of a closed channel panics.
filterDone ==
    /\ sup = "iterate"
    /\ stage.filter \in {"recv", "send"}
    /\ CtxDone
    /\ IF closed
       THEN /\ sup' = "panic"
            /\ UNCHANGED <<errg, stage, held, closed>>
       ELSE /\ closed' = TRUE
            /\ StageReturn("filter", ErrCanceled)
            /\ held' = [held EXCEPT !.filter = <<>>]
            /\ UNCHANGED sup
    /\ UNCHANGED <<crawlVars, cmdVars, lsfVars, biVars, subVars, getVars, puts, ctxErr, sniffRet, iteration, restarts, feed, fed, bus, taken,
                   sniffed, filtered, cache, rejected, published>>

\* queuer: Queue receives a provider and publishes it; a publish failure
\* ends the stage.
queuePublish(ok) ==
    /\ sup = "iterate"
    /\ stage.queue = "recv"
    /\ filtered # <<>>
    /\ filtered' = Tail(filtered)
    /\ IF ok
       THEN /\ published' = Append(published, Head(filtered).ID)
            /\ UNCHANGED <<errg, stage>>
       ELSE /\ StageReturn("queue", ErrPublish)
            /\ UNCHANGED published
    /\ UNCHANGED <<crawlVars, cmdVars, lsfVars, biVars, subVars, getVars, puts, ctxErr, sup, sniffRet, iteration, restarts, held, feed, fed,
                   bus, taken, sniffed, closed, cache, rejected>>

\* queuer: Queue finds its channel closed and drained, and terminates.
queueClosed ==
    /\ sup = "iterate"
    /\ stage.queue = "recv"
    /\ closed
    /\ filtered = <<>>
    /\ StageReturn("queue", Nil)
    /\ UNCHANGED <<crawlVars, cmdVars, lsfVars, biVars, subVars, getVars, puts, ctxErr, sup, sniffRet, iteration, restarts, held, feed, fed,
                   bus, taken, sniffed, filtered, closed, cache, rejected, published>>

\* queuer: Queue finds its context done.
queueDone ==
    /\ sup = "iterate"
    /\ stage.queue = "recv"
    /\ CtxDone
    /\ StageReturn("queue", ErrCanceled)
    /\ UNCHANGED <<crawlVars, cmdVars, lsfVars, biVars, subVars, getVars, puts, ctxErr, sup, sniffRet, iteration, restarts, held, feed, fed,
                   bus, taken, sniffed, filtered, closed, cache, rejected, published>>

\* A faulty variant of iterateReturn that returns with the first error of a
\* stage, without waiting for the other stages.
iterateReturn_firstError ==
    /\ sup = "iterate"
    /\ errg.err # Nil
    /\ IF ctxErr # Nil
       THEN /\ sup' = "returned"
            /\ sniffRet' = ctxErr
            /\ UNCHANGED restarts
       ELSE /\ sup' = "sleep"
            /\ restarts' = Append(restarts, errg.err)
            /\ UNCHANGED sniffRet
    /\ UNCHANGED <<crawlVars, cmdVars, lsfVars, biVars, subVars, getVars, puts, ctxErr, iteration, errg, stage, held, feed, fed, bus, taken,
                   sniffed, filtered, closed, cache, rejected, published>>

\* sniffer.go: errg.Wait() returns and Sniff checks the context it was called
\* with: it returns ctx.Err(), or logs the error and sleeps.
iterateReturn ==
    /\ sup = "iterate"
    /\ \A s \in Stages : stage[s] = "returned"
    /\ IF ctxErr # Nil
       THEN /\ sup' = "returned"
            /\ sniffRet' = ctxErr
            /\ UNCHANGED restarts
       ELSE /\ sup' = "sleep"
            /\ restarts' = Append(restarts, errg.err)
            /\ UNCHANGED sniffRet
    /\ UNCHANGED <<crawlVars, cmdVars, lsfVars, biVars, subVars, getVars, puts, ctxErr, iteration, errg, stage, held, feed, fed, bus, taken,
                   sniffed, filtered, closed, cache, rejected, published>>

\* The steps of Sniff and its stages.
SniffStep ==
    \/ iterate
    \/ subscribeRecv
    \/ subscribeDone
    \/ HandleFunc
    \/ \E e \in {ErrCanceled, ErrDeadline} : HandleFuncDone(e)
    \/ filterRecv
    \/ filterSend
    \/ filterDone
    \/ \E ok \in BOOLEAN : queuePublish(ok)
    \/ queueClosed
    \/ queueDone
    \/ iterateReturn

SniffNext == DatastorePut \/ Cancel \/ SniffStep

\* Sniff with a bus that may close the channel of the subscription.
SubscribeNext == SniffNext \/ subClose \/ subscribeClosed

\* The tasks of the subscription are scheduled: iterate takes a branch of
\* its select that is ready, and the handler returns, by its send or at its
\* deadline at the latest.
SubscribeFairness ==
    /\ WF_vars(subscribeRecv)
    /\ WF_vars(subscribeDone)
    /\ WF_vars(subscribeClosed)
    /\ WF_vars(HandleFunc \/ \E e \in {ErrCanceled, ErrDeadline} : HandleFuncDone(e))

\* The goroutines of Sniff are scheduled: a stage that can take a step takes
\* one, the errgroup returns when its stages have, and time.Sleep ends.
SniffFairness ==
    /\ SubscribeFairness
    /\ WF_vars(iterate)
    /\ WF_vars(filterRecv)
    /\ WF_vars(filterSend)
    /\ WF_vars(filterDone)
    /\ WF_vars(\E ok \in BOOLEAN : queuePublish(ok))
    /\ WF_vars(queueClosed)
    /\ WF_vars(queueDone)
    /\ WF_vars(iterateReturn)

\* The keys a put can have.
PutKeys == {"QmA", OtherKey, BadCidKey, BadPeerKey}

\* The datastore calls afterPut after a Put of key k that returned err.
AfterPut(k, err, ok) ==
    /\ Len(puts) < MaxPuts
    /\ puts' = Append(puts, [key |-> k, err |-> err, emit |-> Emit(ok),
                             ret |-> afterPutCall(k, err, ok).ret,
                             events |-> afterPutCall(k, err, ok).events])
    /\ UNCHANGED <<crawlVars, cmdVars, lsfVars, biVars, subVars, getVars, ctxErr, sup, sniffRet, iteration, restarts, errg, stage, held,
                   feed, fed, bus, taken, sniffed, filtered, closed, cache, rejected,
                   published>>

PutNext == \E k \in PutKeys : \E err \in {Nil, ErrWrite} : \E ok \in BOOLEAN : AfterPut(k, err, ok)

(***************************************************************************)
(* The LastSeenFilter on its own: calls of Seen for any CID at any time of *)
(* a clock that does not go back.                                          *)
(***************************************************************************)
SeenCIDs == {"QmA", "QmB", "QmC", "QmD", "QmE"}

NoCall == [cid |-> "", t |-> NoTime, seen |-> FALSE, before |-> <<>>]

\* Time passes.
FilterTick ==
    /\ clock < MaxFilterClock
    /\ clock' = clock + 1
    /\ UNCHANGED <<crawlVars, sniffVars, subVars, getVars, cmdVars, biVars, lastCall, recorded>>

\* The filter stage calls Seen(cid) at the current time.
FilterSeen(cid) ==
    /\ lastCall' = [cid |-> cid, t |-> clock, seen |-> Seen(cache, cid, clock),
                    before |-> cache]
    /\ cache' = Record(cache, cid, clock)
    /\ recorded' = IF Seen(cache, cid, clock) THEN recorded
                   ELSE [recorded EXCEPT ![cid] = clock]
    /\ UNCHANGED <<crawlVars, cmdVars, biVars, subVars, getVars, clock, ctxErr, sup, sniffRet, iteration, restarts, errg,
                   stage, held, feed, fed, bus, taken, sniffed, filtered, closed, rejected,
                   published, puts>>

FilterNext ==
    \/ FilterTick
    \/ \E cid \in SeenCIDs : FilterSeen(cid)

\* No filter is run on its own.
LsfIdle ==
    /\ clock = 0
    /\ lastCall = NoCall
    /\ recorded = [cid \in SeenCIDs |-> NoTime]

(***************************************************************************)
(* The bulk indexer with its flush workers: one thread submits writes to   *)
(* one document id through Index, Update and Delete; index() adds each to  *)
(* the bulk indexer, whose NumWorkers flush workers take the items from    *)
(* one queue, each into a buffer of its own, and flush their buffers       *)
(* independently of each other.                                            *)
(***************************************************************************)
FlushWorkers == 1..MaxFlushWorkers

BulkActions == {"create", "update", "delete"}

\* Index.index: the item of the n-th write of the thread. All writes go to
\* the document id QmF of one index.
BulkItem(n, action) == [n |-> n, action |-> action, id |-> "QmF"]

\* Index, Update, Delete: index() calls bulkIndexer.Add, which sends the item
\* to the queue of the flush workers and returns; it waits while the queue,
\* which has room for NumWorkers items, is full.
Index_index(action) ==
    /\ submitted < MaxWrites
    /\ Len(biQueue) < numWorkers
    /\ submitted' = submitted + 1
    /\ biQueue' = Append(biQueue, BulkItem(submitted + 1, action))
    /\ UNCHANGED <<crawlVars, sniffVars, subVars, getVars, cmdVars, lsfVars, numWorkers, biBuf, applied>>

\* A flush worker receives the next item of the queue and writes it to its
\* buffer.
worker_run(fw) ==
    /\ fw <= numWorkers
    /\ biQueue # <<>>
    /\ biQueue' = Tail(biQueue)
    /\ biBuf' = [biBuf EXCEPT ![fw] = Append(@, Head(biQueue))]
    /\ UNCHANGED <<crawlVars, sniffVars, subVars, getVars, cmdVars, lsfVars, numWorkers, submitted, applied>>

\* A flush worker flushes its buffer, on FlushBytes or FlushInterval: the
\* backend applies the items of the bulk request in their order.
worker_flush(fw) ==
    /\ fw <= numWorkers
    /\ biBuf[fw] # <<>>
    /\ applied' = applied \o biBuf[fw]
    /\ biBuf' = [biBuf EXCEPT ![fw] = <<>>]
    /\ UNCHANGED <<crawlVars, sniffVars, subVars, getVars, cmdVars, lsfVars, numWorkers, submitted, biQueue>>

BulkNext ==
    \/ \E action \in BulkActions : Index_index(action)
    \/ \E fw \in FlushWorkers : worker_run(fw)
    \/ \E fw \in FlushWorkers : worker_flush(fw)

\* No bulk indexer is run on its own.
BulkIdle ==
    /\ numWorkers = 0
    /\ submitted = 0
    /\ biQueue = <<>>
    /\ biBuf = [fw \in FlushWorkers |-> <<>>]
    /\ applied = <<>>

(***************************************************************************)
(* The direct Index.Get of the elasticsearch index: one request, and the   *)
(* result made of the response.                                            *)
(***************************************************************************)
ErrConnection == "connection error"
ErrDecodingBody == "error decoding body"
ErrDecodingSource == "error decoding source"
ErrUnexpectedStatus == "unexpected status from backend"

StatusCodes == {200, 404, 500}

\* What req.Do returns: a connection error, or a response with its status,
\* a body that decodes or not, the found flag of the body, and a source that
\* decodes into dst or not.
Responses ==
    {[err |-> e, status |-> st, body |-> b, found |-> f, source |-> src] :
        e \in {Nil, ErrConnection}, st \in StatusCodes, b \in BOOLEAN, f \in BOOLEAN,
        src \in BOOLEAN}

GetResult(isFound, err) == [found |-> isFound, err |-> err]

\* Index.Get: the pair (found, error) it returns for the response r.
Get(r) ==
    IF r.err # Nil THEN GetResult(FALSE, r.err)
    ELSE IF ~r.body THEN GetResult(FALSE, ErrDecodingBody)
    ELSE IF r.found
         THEN IF ~r.source THEN GetResult(FALSE, ErrDecodingSource)
              ELSE GetResult(TRUE, Nil)
    ELSE IF r.status # 404 THEN GetResult(FALSE, ErrUnexpectedStatus)
    ELSE GetResult(FALSE, Nil)

\* A caller gets the document of an id and the backend answers with r.
IndexGet(r) ==
    /\ Len(gets) < MaxGets
    /\ gets' = Append(gets, [response |-> r, result |-> Get(r)])
    /\ UNCHANGED <<crawlVars, sniffVars, cmdVars, lsfVars, biVars, subVars>>

GetNext == \E r \in Responses : IndexGet(r)

(***************************************************************************)
(* Part III: the commands crawl and add of main.go and the signal handler  *)
(* onSigTerm. The process is modelled from the moment onSigTerm has        *)
(* returned: sigChan is registered and the goroutine quit waits on it.     *)
(***************************************************************************)
Commands == {"crawl", "add"}

NoExit == [code |-> -1, by |-> "none"]

Exit(code, by) == [code |-> code, by |-> by]

ErrConfig == "config error"

ErrPool == "pool error"

ErrAdd == "add error"

\* main: the exit code of the process for what the Action returned. An
\* ExitError of code 1 ends the process with os.Exit(1), nil lets main return.
exitCode(err) == IF err # Nil THEN 1 ELSE 0

\* The Action returns err and the process ends.
Action_return(err) ==
    /\ cmd' = "returned"
    /\ exit' = Exit(exitCode(err), "main")

\* The process is still running.
Alive == exit = NoExit

\* A channel of one slot in place of the two of sigChan.
send_oneSlot(n) == IF n < 1 THEN n + 1 ELSE n

\* The send of signal.Notify on sigChan, which holds n signals: it does not
\* block, and the signal is dropped when the channel is full.
send(n) == IF n < SigChanSize THEN n + 1 ELSE n

\* signal.Notify: a signal is delivered to the process.
Notify ==
    /\ Alive
    /\ signals < MaxSignals
    /\ signals' = signals + 1
    /\ sigChan' = send(sigChan)
    /\ UNCHANGED <<crawlVars, sniffVars, subVars, getVars, lsfVars, biVars, command, cmd, started, ctxDone, cancels, received,
                   quit, fail, exit>>

\* quit: <-sigChan; go fail()
quit_receive ==
    /\ Alive
    /\ quit = "waiting"
    /\ sigChan > 0
    /\ sigChan' = sigChan - 1
    /\ received' = received + 1
    /\ quit' = "received"
    /\ fail' = "waiting"
    /\ UNCHANGED <<crawlVars, sniffVars, subVars, getVars, lsfVars, biVars, command, cmd, started, ctxDone, cancels, signals,
                   exit>>

\* quit: f(), the cancel function of the command's context
quit_f ==
    /\ Alive
    /\ quit = "received"
    /\ quit' = "returned"
    /\ cancels' = cancels + 1
    /\ ctxDone' = TRUE
    /\ UNCHANGED <<crawlVars, sniffVars, subVars, getVars, lsfVars, biVars, command, cmd, started, signals, sigChan, received,
                   fail, exit>>

\* fail: <-sigChan; os.Exit(1)
fail_exit ==
    /\ Alive
    /\ fail = "waiting"
    /\ sigChan > 0
    /\ sigChan' = sigChan - 1
    /\ received' = received + 1
    /\ fail' = "exited"
    /\ exit' = Exit(1, "fail")
    /\ UNCHANGED <<crawlVars, sniffVars, subVars, getVars, lsfVars, biVars, command, cmd, started, ctxDone, cancels, signals,
                   quit>>

\* add: the check of the number of arguments
add_NArg(ok) ==
    /\ Alive
    /\ command = "add"
    /\ cmd = "NArg"
    /\ IF ok THEN cmd' = "getConfig" /\ UNCHANGED exit
             ELSE Action_return("one hash argument")
    /\ UNCHANGED <<crawlVars, sniffVars, subVars, getVars, lsfVars, biVars, command, started, ctxDone, cancels, signals, sigChan,
                   received, quit, fail>>

\* crawl, add: getConfig and the return on its error
getConfig(err) ==
    /\ Alive
    /\ cmd = "getConfig"
    /\ IF err = Nil
       THEN cmd' = (IF command = "crawl" THEN "Install" ELSE "AddHash") /\ UNCHANGED exit
       ELSE Action_return(err)
    /\ UNCHANGED <<crawlVars, sniffVars, subVars, getVars, lsfVars, biVars, command, started, ctxDone, cancels, signals, sigChan,
                   received, quit, fail>>

\* add: commands.AddHash returns err, which is the error of the context
\* only if the context has been cancelled
add_AddHash(err) ==
    /\ Alive
    /\ cmd = "AddHash"
    /\ err = ErrCanceled => ctxDone
    /\ Action_return(err)
    /\ UNCHANGED <<crawlVars, sniffVars, subVars, getVars, lsfVars, biVars, command, started, ctxDone, cancels, signals, sigChan,
                   received, quit, fail>>

\* commands.Crawl: instr.Install; log.Fatal on its error
Crawl_Install(ok) ==
    /\ Alive
    /\ cmd = "Install"
    /\ IF ok THEN cmd' = "pool.New" /\ UNCHANGED exit
             ELSE cmd' = "fatal" /\ exit' = Exit(1, "log.Fatal")
    /\ UNCHANGED <<crawlVars, sniffVars, subVars, getVars, lsfVars, biVars, command, started, ctxDone, cancels, signals, sigChan,
                   received, quit, fail>>

\* commands.Crawl: pool.New, the return of its error, pool.Start
Crawl_pool(err) ==
    /\ Alive
    /\ cmd = "pool.New"
    /\ IF err = Nil
       THEN cmd' = "ctx.Done" /\ started' = TRUE /\ UNCHANGED exit
       ELSE Action_return(err) /\ UNCHANGED started
    /\ UNCHANGED <<crawlVars, sniffVars, subVars, getVars, lsfVars, biVars, command, ctxDone, cancels, signals, sigChan,
                   received, quit, fail>>

\* commands.Crawl: <-ctx.Done(); return ctx.Err(). crawl returns an
\* ExitError of code 1 for every error of commands.Crawl.
Crawl_Done ==
    /\ Alive
    /\ cmd = "ctx.Done"
    /\ ctxDone
    /\ Action_return(ErrCanceled)
    /\ UNCHANGED <<crawlVars, sniffVars, subVars, getVars, lsfVars, biVars, command, started, ctxDone, cancels, signals, sigChan,
                   received, quit, fail>>

CmdNext ==
    \/ Notify
    \/ quit_receive
    \/ quit_f
    \/ fail_exit
    \/ \E ok \in BOOLEAN : add_NArg(ok)
    \/ \E err \in {Nil, ErrConfig} : getConfig(err)
    \/ \E err \in {Nil, ErrAdd, ErrCanceled} : add_AddHash(err)
    \/ \E ok \in BOOLEAN : Crawl_Install(ok)
    \/ \E err \in {Nil, ErrPool} : Crawl_pool(err)
    \/ Crawl_Done

\* The goroutines of onSigTerm are scheduled. Nothing is assumed of the
\* command, which may take for ever, nor of the user, who may send no signal.
CmdFairness ==
    /\ WF_vars(quit_receive)
    /\ WF_vars(quit_f)
    /\ WF_vars(fail_exit)

\* No command runs.
CmdIdle ==
    /\ command = "none"
    /\ cmd = "returned"
    /\ started = FALSE
    /\ ctxDone = FALSE
    /\ cancels = 0
    /\ signals = 0
    /\ sigChan = 0
    /\ received = 0
    /\ quit = "returned"
    /\ fail = "none"
    /\ exit = NoExit

(***************************************************************************)
(* Specifications of the crawler.                                          *)
(***************************************************************************)
CrawlNext ==
    \/ \E w \in AllWorkers : \E r \in Deliveries(IDs) : Crawl(w, r)
    \/ \E w \in AllWorkers : notExisting(w)
    \/ \E w \in AllWorkers : \E t \in 0..MaxClock : \E ok \in BOOLEAN :
            processExisting(w, t, ok)
    \/ \E w \in AllWorkers : \E stat \in AllStatResults : \E ok \in BOOLEAN :
            ensureType(w, stat, ok)
    \/ \E w \in AllWorkers : \E t \in 0..MaxClock :
            \E outs \in [1..NumExtractors -> ExtractResults] : \E ok \in BOOLEAN :
                index(w, t, outs, ok)
    \/ \E w \in AllWorkers : \E t \in 0..MaxClock : crawlDir(w, t)
    \/ \E w \in AllWorkers : LsSend(w)
    \/ \E w \in AllWorkers : \E e \in {Nil, ErrLs, ErrCanceled} : LsReturn(w, e)
    \/ \E w \in AllWorkers : producerReturn(w)
    \/ \E w \in AllWorkers : \E draw \in 0..(MaxPriority - 1) : \E ok \in BOOLEAN :
            processNextDirEntry(w, draw, ok)
    \/ \E w \in AllWorkers : \E err \in {errEndOfLs, ErrCanceled, ErrDeadline} :
            processDirEntriesEnd(w, err)
    \/ \E w \in AllWorkers : \E ok \in BOOLEAN : crawlDirWait(w, ok)
    \/ Flush

\* Documents an index can hold when a run starts.
FileDoc(refs, t) == [EmptyDoc EXCEPT !.FirstSeen = 0, !.LastSeen = t,
                                     !.References = refs, !.Size = 100]
DirDoc(refs) == [EmptyDoc EXCEPT !.FirstSeen = 0, !.LastSeen = 0, !.References = refs]
InvalidDoc == [EmptyDoc EXCEPT !.Error = ErrUnsupportedType]

Empty == [i \in IndexNames |-> <<>>]

Holding(name, id, doc) == [Empty EXCEPT ![name] = Put(<<>>, id, doc)]

InitialIndexes ==
    {Empty}
        \cup {Holding(Files, "QmF", FileDoc(refs, t)) :
                refs \in {<<>>, << <<"QmP", "a">> >>, << <<"QmP", "b">> >>},
                t \in {NoTime, 0}}
        \cup {Holding(Directories, "QmD", DirDoc(<<>>))}
        \cup {Holding(Partials, id, EmptyDoc) : id \in IDs}
        \cup {Holding(Invalids, "QmU", InvalidDoc)}

\* The CIDs a crawl of r reads or writes in the indexes: r itself and, for a
\* directory, the children that are indexed right away.
Touches(r) ==
    {r.ID} \cup IF Kind(r.ID) = DirectoryType
                THEN {Children[n][1] : n \in {c \in DOMAIN Children :
                                                Children[c][2] = UnsupportedType}}
                ELSE {}

Holds(ix) == UNION {DOMAIN ix[i] : i \in IndexNames}

\* MinUpdateAge is read in the crawl of a sniffed item that is found in Files
\* or Directories: only there does its value matter.
ReadsAge(in, ix) ==
    \E r \in in :
        /\ r.Source \in {SnifferSource, UnknownSource}
        /\ r.ID \in DOMAIN ix[Files] \cup DOMAIN ix[Directories]

\* The sniffer before Sniff is called, with the keys the DHT node will put.
SnifferInit(fs) ==
    /\ ctxErr = Nil
    /\ sup = "start"
    /\ sniffRet = Nil
    /\ iteration = 0
    /\ restarts = <<>>
    /\ errg = NoGroup
    /\ stage = [s \in Stages |-> "returned"]
    /\ held = NoHeld
    /\ feed \in fs
    /\ fed = 0
    /\ bus = <<>>
    /\ taken = 0
    /\ sniffed = <<>>
    /\ filtered = <<>>
    /\ closed = FALSE
    /\ cache = <<>>
    /\ rejected = 0
    /\ published = <<>>
    /\ puts = <<>>
    /\ subClosed = FALSE
    /\ gets = <<>>

SniffInitWith(fs) == SnifferInit(fs) /\ CmdIdle /\ LsfIdle /\ BulkIdle

CrawlInitSized(sizes, ws, in, ks, ds, n) ==
    /\ now = 0
    /\ maxDirSize \in sizes
    /\ workers = ws
    /\ inputs \in in
    /\ kids \in ks
    /\ draws = ds
    /\ budget = n
    /\ idx \in {ix \in InitialIndexes : \A r \in inputs : Holds(ix) \subseteq Touches(r)}
    /\ minUpdateAge \in IF ReadsAge(inputs, idx) THEN 0..MaxMinUpdateAge ELSE {0}
    /\ issued = <<>>
    /\ flushed = 0
    /\ queued = <<>>
    /\ pc = [w \in AllWorkers |-> "idle"]
    /\ res = [w \in AllWorkers |-> NoResource]
    /\ job = [w \in AllWorkers |-> 0]
    /\ found = [w \in AllWorkers |-> NoItem]
    /\ dir = [w \in AllWorkers |-> NoDir]
    /\ extract = [w \in AllWorkers |-> <<>>]
    /\ ret = [w \in AllWorkers |-> Nil]
    /\ invalid = [w \in AllWorkers |-> Nil]
    /\ SniffInitWith({<<>>})

\* One worker and one delivery, of any kind, against a backend that holds
\* nothing or one document; directories of up to MaxChildren children.
CrawlInitWith(ws, in, ks, ds, n) == CrawlInitSized(0..MaxDirSizeBound, ws, in, ks, ds, n)

CrawlInit ==
    CrawlInitWith({"w1"}, {{r} : r \in Deliveries(IDs)}, Listings(MaxChildren),
                  {0, MaxPriority - 1}, 1)

CrawlSpec == CrawlInit /\ [][CrawlNext]_vars

\* One worker and one delivery, with MaxDirSize at the number of children of
\* a directory: every directory that is listed in full is written.
LinksInit ==
    CrawlInitSized({MaxChildren}, {"w1"}, {{r} : r \in Deliveries(IDs)}, Listings(MaxChildren),
                   {0, MaxPriority - 1}, 1)

LinksSpec == LinksInit /\ [][CrawlNext]_vars

\* add.go: the resource AddHash publishes to the hashes queue.
AddHash(hash) == Resource(IPFSProtocol, hash, UndefinedType, ManualSource, NoParent, "")

\* One worker and the same hash added twice; an added directory has one
\* child. The first delivery is job 2, the second job 1.
AddInit ==
    CrawlInitWith({"w1"}, {{AddHash(id)} : id \in IDs}, Listings(1), {0}, 2)

AddSpec == AddInit /\ [][CrawlNext]_vars

\* The deliveries of a file: sniffed, or listed in a directory under one of
\* three references.
SeqDeliveries ==
    {Resource(IPFSProtocol, "QmF", UndefinedType, SnifferSource, NoParent, "")}
        \cup {Resource(IPFSProtocol, "QmF", FileType, DirectorySource, ref[1], ref[2]) :
                ref \in {<<"QmP", "a">>, <<"QmP", "b">>, <<"QmQ", "a">>}}

\* One worker, an empty backend and MaxCrawls deliveries of one file, in any
\* order and with repetitions.
SeqInit ==
    /\ CrawlInitWith({"w1"}, {SeqDeliveries}, {<<>>}, {0}, MaxCrawls)
    /\ idx = Empty

\* The steps of the crawl of a file.
SeqNext ==
    \/ \E w \in AllWorkers : \E r \in SeqDeliveries : Crawl(w, r)
    \/ \E w \in AllWorkers : notExisting(w)
    \/ \E w \in AllWorkers : \E t \in 0..MaxClock : \E ok \in BOOLEAN :
            processExisting(w, t, ok)
    \/ \E w \in AllWorkers : \E stat \in AllStatResults : \E ok \in BOOLEAN :
            ensureType(w, stat, ok)
    \/ \E w \in AllWorkers : \E t \in 0..MaxClock :
            \E outs \in [1..NumExtractors -> ExtractResults] : \E ok \in BOOLEAN :
                index(w, t, outs, ok)
    \/ Flush

SeqSpec == SeqInit /\ [][SeqNext]_vars

\* The deliveries of a file that is listed in a directory.
RefDeliveries == {r \in SeqDeliveries : r.Source = DirectorySource}

\* Two workers that do not coordinate and one delivery for each, of a file
\* the backend holds without references or does not hold.
RefsInit ==
    /\ CrawlInitWith(AllWorkers, {RefDeliveries}, {<<>>}, {0}, Cardinality(AllWorkers))
    /\ idx \in {Empty, Holding(Files, "QmF", FileDoc(<<>>, 0))}

RefsSpec == RefsInit /\ [][SeqNext]_vars

\* The listings of up to MaxListing children that are files or entries of a
\* type the expander does not expect.
PanicListings ==
    UNION {[1..n -> {<<"QmF", FileType>>, <<"QmF", PartialType>>}] : n \in 0..MaxListing}

\* One worker, an empty backend and one sniffed directory.
PanicInit ==
    /\ CrawlInitWith({"w1"},
                     {{Resource(IPFSProtocol, "QmD", UndefinedType, SnifferSource, NoParent, "")}},
                     PanicListings, {0}, 1)
    /\ maxDirSize = MaxDirSizeBound
    /\ idx = Empty

\* The steps of the crawl of a directory whose tasks can panic. Ls returns
\* nil once it has sent every child.
PanicNext ==
    \/ \E w \in AllWorkers : \E r \in Deliveries(IDs) : Crawl(w, r)
    \/ \E w \in AllWorkers : notExisting(w)
    \/ \E w \in AllWorkers : \E stat \in AllStatResults : \E ok \in BOOLEAN :
            ensureType(w, stat, ok)
    \/ \E w \in AllWorkers : \E t \in 0..MaxClock : crawlDir(w, t)
    \/ \E w \in AllWorkers : LsSend(w)
    \/ \E w \in AllWorkers : LsDone(w)
    \/ \E w \in AllWorkers : \E e \in {ErrLs, ErrCanceled} : LsReturn(w, e)
    \/ \E w \in AllWorkers : LsPanic(w)
    \/ \E w \in AllWorkers : producerReturn(w)
    \/ \E w \in AllWorkers : \E draw \in 0..(MaxPriority - 1) : \E ok \in BOOLEAN :
            processNextDirEntry(w, draw, ok)
    \/ \E w \in AllWorkers : consumerPanic(w)
    \/ \E w \in AllWorkers : \E err \in {errEndOfLs, ErrCanceled, ErrDeadline} :
            processDirEntriesEnd(w, err)
    \/ \E w \in AllWorkers : \E ok \in BOOLEAN : crawlDirWait(w, ok)
    \/ Flush

\* The scheduler runs every task that can take a step: Ls sends while the
\* channel has room, returns once it has sent every child or its context is
\* done, and the consumer, the errgroup and Wait proceed.
PanicFairness ==
    \A w \in AllWorkers :
        /\ WF_vars(LsSend(w))
        /\ WF_vars(LsDone(w))
        /\ WF_vars(dir[w].ctxDone /\ LsReturn(w, ErrCanceled))
        /\ WF_vars(producerReturn(w))
        /\ WF_vars(\E draw \in 0..(MaxPriority - 1) : processNextDirEntry(w, draw, TRUE))
        /\ WF_vars(consumerPanic(w))
        /\ WF_vars(\E err \in {errEndOfLs, ErrCanceled} : processDirEntriesEnd(w, err))
        /\ WF_vars(crawlDirWait(w, TRUE))

PanicSpec == PanicInit /\ [][PanicNext]_vars /\ PanicFairness

\* The sniffer alone: no worker and no delivery.
CrawlerIdle ==
    /\ now = 0
    /\ maxDirSize = 0
    /\ minUpdateAge = 0
    /\ workers = {}
    /\ inputs = {}
    /\ kids = <<>>
    /\ draws = {}
    /\ budget = 0
    /\ idx = Empty
    /\ issued = <<>>
    /\ flushed = 0
    /\ queued = <<>>
    /\ pc = [w \in AllWorkers |-> "idle"]
    /\ res = [w \in AllWorkers |-> NoResource]
    /\ job = [w \in AllWorkers |-> 0]
    /\ found = [w \in AllWorkers |-> NoItem]
    /\ dir = [w \in AllWorkers |-> NoDir]
    /\ extract = [w \in AllWorkers |-> <<>>]
    /\ ret = [w \in AllWorkers |-> Nil]
    /\ invalid = [w \in AllWorkers |-> Nil]

SniffInit == CrawlerIdle /\ SniffInitWith(Feeds(MaxEvents))

SniffSpec == SniffInit /\ [][SniffNext]_vars

SubscribeSpec == SniffInit /\ [][SubscribeNext]_vars /\ SubscribeFairness

\* Sniff with its goroutines scheduled.
RestartSpec == SniffInit /\ [][SniffNext]_vars /\ SniffFairness

\* The afterPut hook alone, called for any key and any result of the write.
PutSpec == SniffInit /\ [][PutNext]_vars

\* A new LastSeenFilter; nothing else runs.
FilterSpec == SniffInit /\ [][FilterNext]_vars

\* Calls of the direct Index.Get; nothing else runs.
GetInit == CrawlerIdle /\ SniffInitWith({<<>>})

GetSpec == GetInit /\ [][GetNext]_vars

\* A new bulk indexer of one or more flush workers; nothing else runs.
BulkInit ==
    /\ CrawlerIdle
    /\ SnifferInit({<<>>})
    /\ CmdIdle
    /\ LsfIdle
    /\ numWorkers \in FlushWorkers
    /\ submitted = 0
    /\ biQueue = <<>>
    /\ biBuf = [fw \in FlushWorkers |-> <<>>]
    /\ applied = <<>>

BulkSpec == BulkInit /\ [][BulkNext]_vars

\* A command after onSigTerm has returned; no worker and no sniffer runs.
CmdInit ==
    /\ CrawlerIdle
    /\ SnifferInit({<<>>})
    /\ LsfIdle
    /\ BulkIdle
    /\ command \in Commands
    /\ cmd = (IF command = "add" THEN "NArg" ELSE "getConfig")
    /\ started = FALSE
    /\ ctxDone = FALSE
    /\ cancels = 0
    /\ signals = 0
    /\ sigChan = 0
    /\ received = 0
    /\ quit = "waiting"
    /\ fail = "none"
    /\ exit = NoExit

CmdSpec == CmdInit /\ [][CmdNext]_vars

CmdFairSpec == CmdSpec /\ CmdFairness

(***************************************************************************)
(* Properties of the crawler.                                              *)
(***************************************************************************)
Returned(w) == pc[w] = "done"

\* The crawl of w expanded a directory and Ls has returned.
Expanded(w) == Returned(w) /\ dir[w].lsRet # Running

\* The create items the delivery j added for id in index.
Writes(j, name, id) ==
    {n \in 1..Len(issued) :
        /\ issued[n].job = j
        /\ issued[n].action = "create"
        /\ issued[n].index = name
        /\ issued[n].id = id}

\* The messages the delivery j published for the entry e.
Published(j, e) ==
    {n \in 1..Len(queued) :
        /\ queued[n].job = j
        /\ queued[n].ID = e.ID
        /\ queued[n].Parent = e.Parent
        /\ queued[n].Name = e.Name}

\* No Publish and no Index call of the crawl of w failed.
NoCallFailed(w) ==
    /\ dir[w].consumer \notin {ErrPublish, ErrIndexer}
    /\ ret[w] # ErrIndexer

\* No wait for an entry ran into DirEntryTimeout.
NoEntryTimeout(w) == dir[w].consumer # ErrDeadline

\* The outcome C1 states for a directory of k children.
DirectoryOutcome(w) ==
    LET k == Len(dir[w].listed)
        dirs == Writes(job[w], Directories, res[w].ID)
        invalids == Writes(job[w], Invalids, res[w].ID)
    IN  IF k <= maxDirSize
        THEN /\ Cardinality(dirs) = 1
             /\ \A n \in dirs : Len(issued[n].body.Links) = k
        ELSE /\ dirs = {}
             /\ Cardinality(invalids) = 1
             /\ \A n \in invalids : issued[n].body.Error = ErrDirectoryTooLarge

QueueFor(rType) ==
    CASE rType = UndefinedType -> Hashes
      [] rType = FileType -> Files
      [] rType = DirectoryType -> Directories
      [] OTHER -> NoIndex

\* Every child Ls enumerated was dispatched exactly once, to its own place.
AllDispatched(w) ==
    LET d == dir[w]
        j == job[w]
        unsupported == {n \in 1..Len(d.listed) : d.listed[n].Type = UnsupportedType}
    IN  /\ \A n \in 1..Len(d.listed) :
            LET e == d.listed[n] IN
            IF e.Type = UnsupportedType
            THEN /\ Published(j, e) = {}
                 /\ Cardinality(Writes(j, Invalids, e.ID))
                        = Cardinality({m \in unsupported : d.listed[m].ID = e.ID})
            ELSE /\ Cardinality(Published(j, e)) = 1
                 /\ \A m \in Published(j, e) : queued[m].queue = QueueFor(e.Type)
        /\ Cardinality({m \in 1..Len(queued) : queued[m].job = j})
                + Cardinality(unsupported) = Len(d.listed)

C3_ExtractorErrorPropagates ==
    \A w \in AllWorkers :
        /\ Returned(w)
        /\ res[w].Type = FileType
        /\ ret[w] # ErrIndexer
        /\ \E n \in DOMAIN extract[w] : extract[w][n] = ErrExtractor
        => /\ ret[w] = ErrExtractor
           /\ Writes(job[w], Files, res[w].ID) = {}

\* C4: in every reachable state a CID is present in at most one of the four
\* indexes.
C4_AtMostOneIndex ==
    \A id \in IDs : Cardinality({i \in IndexNames : id \in DOMAIN idx[i]}) <= 1


\* The items of an action the delivery j added for id, in any index.
ItemsOf(j, action, id) ==
    {n \in 1..Len(issued) :
        /\ issued[n].job = j
        /\ issued[n].action = action
        /\ issued[n].id = id}

\* The index of a type.
IndexOf(rType) ==
    CASE rType = FileType -> Files
      [] rType = DirectoryType -> Directories
      [] rType = PartialType -> Partials
      [] OTHER -> Invalids

\* The crawl of w found the CID in Partials and the delivery has a parent.
ReferencedPartial(w) ==
    /\ Returned(w)
    /\ found[w].index = Partials
    /\ res[w].Parent # NoParent

\* One delete against Partials, before any create for the CID.
DeletedOnceFirst(w) ==
    LET deletes == ItemsOf(job[w], "delete", res[w].ID)
        creates == ItemsOf(job[w], "create", res[w].ID)
    IN  /\ Cardinality(deletes) = 1
        /\ \A d \in deletes : issued[d].index = Partials
        /\ \A d \in deletes : \A c \in creates : d < c
        /\ Cardinality(creates) <= 1

ItemsOfJob(j) == {n \in 1..Len(issued) : issued[n].job = j}

\* The crawl of w found the CID in Files or Directories.
FoundIndexed(w) == Returned(w) /\ found[w].index \in {Files, Directories}

\* The reference of the delivery is new to the stored document.
NewReference(w) ==
    /\ res[w].Parent # NoParent
    /\ \A n \in 1..Len(found[w].References) :
            found[w].References[n] # <<res[w].Parent, res[w].Name>>

\* C13: when Crawl finds the CID in Files or Directories and the Source is
\* Directory: if the pair (Parent.ID, Name) is not in the stored References,
\* one partial update is issued (and, when the bulk indexer takes it, it is the
\* only item), whose only field is References, the stored list with the pair
\* appended; if the pair is present or Parent is nil, nothing is issued; in no
\* case is LastSeen written.
C13_ReferenceUpdate ==
    \A w \in AllWorkers :
        FoundIndexed(w) /\ res[w].Source = DirectorySource
            => LET items == ItemsOfJob(job[w]) IN
               /\ IF NewReference(w)
                  THEN /\ ret[w] \in {Nil, ErrIndexer}
                       /\ ret[w] = Nil => Cardinality(items) = 1
                       /\ ret[w] = ErrIndexer => items = {}
                  ELSE ret[w] = Nil /\ items = {}
               /\ \A n \in items :
                    /\ issued[n].action = "update"
                    /\ issued[n].index = found[w].index
                    /\ issued[n].id = res[w].ID
                    /\ issued[n].fields = {"References"}
                    /\ issued[n].body.References =
                            Append(found[w].References, <<res[w].Parent, res[w].Name>>)

\* A file known under the name b in QmP was found under the name a as well:
\* the update carries both references and nothing else.
C13_Witness ==
    \E w \in AllWorkers :
        /\ FoundIndexed(w) /\ res[w].Source = DirectorySource
        /\ found[w].References = << <<"QmP", "b">> >>
        /\ Len(issued) = 1
        /\ issued[1].action = "update"
        /\ issued[1].fields = {"References"}
        /\ issued[1].body.References = << <<"QmP", "b">>, <<"QmP", "a">> >>

\* The crawl of w found the CID in Files or Directories for a sniffed item.
FoundSniffed(w) ==
    /\ FoundIndexed(w)
    /\ res[w].Source \in {SnifferSource, UnknownSource}

\* The one item of the crawl of w, if any, sets LastSeen, and nothing else, to
\* the time truncated to whole seconds.
OnlyLastSeen(w) ==
    /\ Cardinality(ItemsOfJob(job[w])) <= 1
    /\ \A n \in ItemsOfJob(job[w]) :
            /\ issued[n].action = "update"
            /\ issued[n].index = found[w].index
            /\ issued[n].id = res[w].ID
            /\ issued[n].fields = {"LastSeen"}
            /\ issued[n].body.LastSeen = Truncate(now)

\* C14, as stated: for a Sniffer or Unknown source and a CID found in Files or
\* Directories, an update of LastSeen alone, to the time truncated to seconds,
\* is issued iff the stored LastSeen is nil or the current time minus the
\* stored LastSeen is greater than MinUpdateAge.
C14_AsStated ==
    \A w \in AllWorkers :
        FoundSniffed(w) /\ ret[w] # ErrIndexer
            => /\ OnlyLastSeen(w)
               /\ ItemsOfJob(job[w]) # {}
                    <=> \/ found[w].LastSeen = NoTime
                        \/ now - found[w].LastSeen > minUpdateAge

\* C14, with the time it compares: for a Sniffer or Unknown source and a CID
\* found in Files or Directories, an update of LastSeen alone, to the time
\* truncated to seconds, is issued iff the stored LastSeen is nil or the
\* current time truncated to whole seconds minus the stored LastSeen is
\* greater than MinUpdateAge; a rejected update is one that was due.
C14_LastSeenUpdate ==
    \A w \in AllWorkers :
        FoundSniffed(w)
            => LET due == \/ found[w].LastSeen = NoTime
                          \/ Truncate(now) - found[w].LastSeen > minUpdateAge
               IN  /\ OnlyLastSeen(w)
                   /\ ret[w] \in {Nil, ErrIndexer}
                   /\ ret[w] = Nil => (ItemsOfJob(job[w]) # {} <=> due)
                   /\ ret[w] = ErrIndexer => due /\ ItemsOfJob(job[w]) = {}

\* An item of Unknown source was last seen at 0 and is seen again one second
\* later with MinUpdateAge of half a second: LastSeen is updated.
C14_Witness ==
    \E w \in AllWorkers :
        /\ FoundSniffed(w)
        /\ res[w].Source = UnknownSource
        /\ found[w].LastSeen = 0
        /\ minUpdateAge = 1
        /\ now = TicksPerSecond
        /\ Len(issued) = 1
        /\ issued[1].fields = {"LastSeen"}
        /\ issued[1].body.LastSeen = TicksPerSecond

\* C15: a hash added again with Source = Manual, once an earlier indexing of
\* it is visible to reads, is processed with no index write at all, whichever
\* index holds the CID.
C15_ManualAddIdempotent ==
    \A w \in AllWorkers :
        /\ pc[w] # "idle"
        /\ job[w] = 1
        /\ res[w].Source = ManualSource
        /\ found[w].index # NoIndex
        => ItemsOfJob(job[w]) = {}

\* The first delivery of an added hash created a Files document, the second
\* delivery found it there and returned nil without a write.
C15_Witness ==
    \E w \in AllWorkers :
        /\ Returned(w)
        /\ job[w] = 1
        /\ res[w] = AddHash("QmF")
        /\ found[w].index = Files
        /\ ret[w] = Nil
        /\ Len(issued) = 1
        /\ issued[1].job = 2 /\ issued[1].action = "create" /\ issued[1].index = Files
        /\ flushed = 1

\* The references of a document hold no (ParentHash, Name) pair twice.
NoDuplicate(refs) ==
    \A m, n \in 1..Len(refs) : refs[m] = refs[n] => m = n

\* C16: after any sequence of Crawl calls, no document of any index holds
\* two references with the same (ParentHash, Name) pair.
C16_ReferencesUnique ==
    \A i \in IndexNames : \A id \in DOMAIN idx[i] : NoDuplicate(idx[i][id].References)

\* A file was created under one reference and delivered again under the
\* same one: the document holds it once and no update was issued.
C16_Witness ==
    /\ "QmF" \in DOMAIN idx[Files]
    /\ Len(issued) = 1
    /\ flushed = 1
    /\ issued[1].action = "create"
    /\ \E w \in AllWorkers :
            /\ Returned(w)
            /\ job[w] # issued[1].job
            /\ found[w].index = Files
            /\ res[w].Parent # NoParent
            /\ idx[Files]["QmF"].References = << <<res[w].Parent, res[w].Name>> >>

WholeSecond(t) == t % TicksPerSecond = 0

\* The documents of Files and Directories, the indexes whose documents carry
\* FirstSeen and LastSeen.
SeenDocs == {idx[i][id] : <<i, id>> \in {p \in {Files, Directories} \X (IDs \cup {"QmP"}) :
                                            p[2] \in DOMAIN idx[p[1]]}}

\* C17: after any sequence of creates and LastSeen updates, every indexed
\* document has LastSeen >= FirstSeen, both in whole seconds, and a document
\* is created with FirstSeen equal to LastSeen.
C17_SeenOrdered ==
    /\ \A d \in SeenDocs :
            /\ WholeSecond(d.FirstSeen)
            /\ WholeSecond(d.LastSeen)
            /\ d.LastSeen >= d.FirstSeen
    /\ \A n \in 1..Len(issued) :
            issued[n].action = "create" /\ issued[n].index \in {Files, Directories}
                => /\ issued[n].body.FirstSeen = issued[n].body.LastSeen
                   /\ issued[n].body.FirstSeen # NoTime

\* A file was created in one second and sniffed again in a later one: its
\* LastSeen was updated and is later than its FirstSeen.
C17_Witness ==
    /\ "QmF" \in DOMAIN idx[Files]
    /\ idx[Files]["QmF"].LastSeen > idx[Files]["QmF"].FirstSeen
    /\ flushed = 2
    /\ issued[1].action = "create"
    /\ issued[2].action = "update" /\ issued[2].fields = {"LastSeen"}

\* The crawl of w expanded a directory with MaxDirSize = 0; Ls returned
\* without error, no call failed and no wait for an entry timed out.
ExpandedAtZero(w) ==
    /\ maxDirSize = 0
    /\ Expanded(w) /\ dir[w].lsRet = Nil /\ NoCallFailed(w) /\ NoEntryTimeout(w)

\* The directory of w counted as too large: no Directories document, the
\* parent in Invalids, every child dispatched.
TooLargeOutcome(w) ==
    /\ Writes(job[w], Directories, res[w].ID) = {}
    /\ Cardinality(Writes(job[w], Invalids, res[w].ID)) = 1
    /\ \A n \in Writes(job[w], Invalids, res[w].ID) :
            issued[n].body.Error = ErrDirectoryTooLarge
    /\ AllDispatched(w)

ItemsIn(j, name, id) ==
    {n \in 1..Len(issued) :
        issued[n].job = j /\ issued[n].index = name /\ issued[n].id = id}

\* C20: whenever Crawl classifies the resource as ErrInvalidResource (Stat
\* fails as invalid, the type is Unsupported, an extractor reports file too
\* large, the directory is too large), Crawl returns the result of the write
\* of the Invalid marker; if that is nil, the delivery has written exactly one
\* marker, with the error text, to Invalids under the CID, and in any case it
\* has written no document to Files, Directories or Partials.
C20_InvalidMarker ==
    \A w \in AllWorkers :
        Returned(w) /\ invalid[w] # Nil
            => LET marks == ItemsIn(job[w], Invalids, res[w].ID) IN
               /\ ret[w] \in {Nil, ErrIndexer}
               /\ Cardinality(marks) = IF ret[w] = Nil THEN 1 ELSE 0
               /\ \A n \in marks :
                    /\ issued[n].action = "create"
                    /\ issued[n].body.Error = invalid[w]
               /\ \A i \in {Files, Directories, Partials} :
                    Writes(job[w], i, res[w].ID) = {}

\* A directory was too large: its child was published, the marker was
\* written and Crawl returned nil.
C20_Witness ==
    \E w \in AllWorkers :
        /\ Returned(w)
        /\ invalid[w] = ErrDirectoryTooLarge
        /\ ret[w] = Nil
        /\ \E m \in 1..Len(queued) : queued[m].job = job[w]
        /\ Cardinality(ItemsIn(job[w], Invalids, res[w].ID)) = 1

\* The resource is one Crawl must not be called with.
Misuse(r) ==
    r.Protocol = InvalidProtocol \/ r.Type \notin {UndefinedType, FileType, DirectoryType}

\* C21: Crawl called with Protocol = Invalid or with a Type outside
\* {Undefined, File, Directory} panics before any index read, protocol call,
\* queue publish or index write.
C21_MisusePanics ==
    \A w \in AllWorkers : \A r \in inputs :
        pc[w] # "idle" /\ Misuse(r)
            => /\ res[w] = r
               /\ pc[w] = "done"
               /\ ret[w] = Panic
               /\ found[w] = NoItem
               /\ dir[w] = NoDir
               /\ extract[w] = <<>>
               /\ ItemsOfJob(job[w]) = {}
               /\ \A m \in 1..Len(queued) : queued[m].job # job[w]

\* Crawl was called with an unsupported type for a CID the backend holds,
\* and panicked.
C21_Witness ==
    \E w \in AllWorkers :
        /\ Returned(w)
        /\ res[w] \in inputs
        /\ res[w].Type = UnsupportedType
        /\ res[w].Protocol = IPFSProtocol
        /\ res[w].ID \in DOMAIN idx[Invalids]
        /\ ret[w] = Panic

\* The read of w found the CID in Invalids, or in Partials for a delivery
\* without a parent reference.
FoundSettled(w) ==
    /\ pc[w] # "idle"
    /\ \/ found[w].index = Invalids
       \/ found[w].index = Partials /\ res[w].Parent = NoParent

\* C22: when the CID is found in Invalids, or in Partials with no parent
\* reference in the delivery, Crawl stops, whatever the Source: no Stat or Ls
\* call, no publish, no index write, the indexes unchanged, and nil returned.
C22_SettledStops ==
    \A w \in AllWorkers :
        FoundSettled(w)
            => /\ pc[w] \in {"updateMaybeExisting", "done"}
               /\ pc[w] = "done" => ret[w] = Nil
               /\ res[w] \in inputs
               /\ dir[w] = NoDir
               /\ extract[w] = <<>>
               /\ ItemsOfJob(job[w]) = {}
               /\ \A m \in 1..Len(queued) : queued[m].job # job[w]
               /\ idx \in InitialIndexes

\* A directory entry without a parent reference was delivered for a CID in
\* Partials: Crawl returned nil and wrote nothing.
C22_Witness ==
    \E w \in AllWorkers :
        /\ FoundSettled(w)
        /\ Returned(w)
        /\ found[w].index = Partials
        /\ res[w].Source = DirectorySource
        /\ ret[w] = Nil
        /\ issued = <<>>

\* C23: every child the directory expander publishes to the Hashes, Files or
\* Directories queue carries a priority from 1 to 7, drawn for that child;
\* none is published with priority 0 or above 7.
C23_ChildPriority ==
    \A m \in 1..Len(queued) :
        /\ queued[m].queue \in {Hashes, Files, Directories}
        /\ queued[m].priority \in 1..7

\* Two children of one directory were published with the lowest and the
\* highest priority.
C23_Witness ==
    \E m, n \in 1..Len(queued) :
        /\ queued[m].job = queued[n].job
        /\ queued[m].priority = 1
        /\ queued[n].priority = 7

\* The link addLink makes of an entry.
LinkOf(e) == [Hash |-> e.ID, Name |-> e.Name, Size |-> e.Size, Type |-> resourceToLinkType(e)]

\* The consumer of w is at work or has ended without a panic.
Consuming(w) == pc[w] \in {"crawlDir", "done"} /\ dir[w] # NoDir /\ dir[w].panicVar = Nil

\* The children of the crawl of w that were dispatched: published to a queue
\* or, when Unsupported, written to Invalids.
DispatchedCount(w) ==
    Cardinality({m \in 1..Len(queued) : queued[m].job = job[w]})
        + Cardinality({n \in 1..Len(issued) :
                        /\ issued[n].job = job[w]
                        /\ issued[n].index = Invalids
                        /\ issued[n].id # res[w].ID})

\* The counter and the dispatch of the consumer of w: dirCnt counts the
\* passes of the loop, one per child received and one for the pass that ends
\* it; every child received is dispatched, save the one whose Publish or
\* Index call failed.
CountsAndQueues(w) ==
    LET d == dir[w] IN
    /\ d.dirCnt = d.recvd + (IF d.consumer \in {Running, ErrPublish, ErrIndexer} THEN 0 ELSE 1)
    /\ DispatchedCount(w) = d.recvd - (IF d.consumer \in {ErrPublish, ErrIndexer} THEN 1 ELSE 0)

\* The consumer of w has marked the directory as large exactly when it has
\* received more than first children, and Links holds the links of the
\* children up to first, in the order of the listing.
CutoffAfter(w, first) ==
    LET d == dir[w] IN
    /\ d.isLarge <=> d.recvd > first
    /\ d.Links = [n \in 1..(IF d.recvd < first THEN d.recvd ELSE first) |-> LinkOf(d.listed[n])]

\* C31, as stated: isLarge becomes true while the MaxDirSize-th child is
\* processed; that child and all later ones are queued but not linked.
C31_AsStated ==
    \A w \in AllWorkers :
        Consuming(w) /\ maxDirSize >= 1 => CountsAndQueues(w) /\ CutoffAfter(w, maxDirSize - 1)

\* C31: the counter is incremented for each child received, and isLarge
\* becomes true while the child received with the counter at MaxDirSize is
\* processed, which is child number MaxDirSize + 1: the first MaxDirSize
\* children are linked and queued, that child and all later ones are queued
\* but not linked.
C31_Cutoff ==
    \A w \in AllWorkers : Consuming(w) => CountsAndQueues(w) /\ CutoffAfter(w, maxDirSize)

\* A directory of MaxDirSize + 1 >= 2 children: the last child was queued and
\* not linked, the children before it are linked.
C31_Witness ==
    \E w \in AllWorkers :
        /\ Consuming(w)
        /\ maxDirSize >= 1
        /\ dir[w].recvd = maxDirSize + 1
        /\ dir[w].isLarge
        /\ Len(dir[w].Links) = maxDirSize
        /\ DispatchedCount(w) = maxDirSize + 1

\* The link type C32 names for the type of a child.
LinkTypeFor(rType) ==
    CASE rType = FileType -> "File"
      [] rType = DirectoryType -> "Directory"
      [] rType = UndefinedType -> "Unknown"
      [] rType = UnsupportedType -> "Unsupported"

\* The links of the children Ls enumerated in the crawl of w, in its order.
LinksOfListing(w) ==
    [n \in 1..Len(dir[w].listed) |->
        [Hash |-> kids[n][1], Name |-> EntryNames[n], Size |-> SizeOf(kids[n][1]),
         Type |-> LinkTypeFor(kids[n][2])]]

\* The Directories documents issued.
DirectoryWrites ==
    {n \in 1..Len(issued) : issued[n].action = "create" /\ issued[n].index = Directories}

\* C32: for every Directory document that is written, Links lists the
\* children of the directory in the order in which Ls enumerated them, one
\* link per child, with the child's Hash, Name, Size and the link type of
\* its type.
C32_LinksInOrder ==
    \A n \in DirectoryWrites :
        \E w \in workers :
            /\ issued[n].job = job[w]
            /\ issued[n].id = res[w].ID
            /\ issued[n].body.Links = LinksOfListing(w)

\* A Directories document of two children of different types was written.
C32_Witness ==
    \E n \in DirectoryWrites :
        /\ Len(issued[n].body.Links) = MaxChildren
        /\ issued[n].body.Links[1].Type # issued[n].body.Links[2].Type
        /\ issued[n].body.Links[1].Name # issued[n].body.Links[2].Name

(***************************************************************************)
(* Properties of the sniffer.                                              *)
(***************************************************************************)
\* The errors the stages have returned, in this iteration or before a restart.
StageErrors ==
    {errg[s] : s \in Stages} \cup {restarts[n] : n \in 1..Len(restarts)}

\* The error of the stage that was the first to return one.
FirstError ==
    LET failed == {n \in 1..Len(errg.order) : errg[errg.order[n]] # Nil} IN
    IF failed = {} THEN Nil
    ELSE errg[errg.order[CHOOSE n \in failed : \A m \in failed : n <= m]]

\* C5, in a finite form: after a restart (the queuer failed in the iteration
\* before, while the parent context is live), all three stages of the new
\* iteration run on the channels sniffed and filtered until one of them fails;
\* none has stopped and no send has panicked, so that a fresh provider can be
\* published.
C5_RestartedPipelineRuns ==
    /\ iteration > 1
    /\ restarts[Len(restarts)] = ErrPublish
    /\ ctxErr = Nil
    /\ errg.err = Nil
    => sup = "iterate" /\ \A s \in Stages : stage[s] # "returned"

\* C6: Sniff returns only when the parent context is cancelled, and with the
\* parent's error; and once the parent context is cancelled Sniff and its
\* stages are never stuck short of that return.
C6_ReturnsWhenCancelled ==
    /\ sup = "returned" => ctxErr # Nil /\ sniffRet = ctxErr
    /\ ctxErr # Nil /\ sup # "returned" => ENABLED SniffStep

\* C7: when the parent context is cancelled during the restart delay, Sniff
\* starts no further iteration.
C7_NoRestartAfterCancel ==
    [][sup = "sleep" /\ ctxErr # Nil => sup' # "iterate" /\ iteration' = iteration]_vars

\* C8: the stages of one iteration share one context, which the first stage
\* error cancels; iterate returns only after all three stages have returned,
\* and it returns the error of the stage that failed first.
C8_FirstErrorWins ==
    /\ errg.ctxDone <=> \E s \in Stages : errg[s] \notin {Running, Nil}
    /\ errg.err = FirstError
    /\ sup \in {"sleep", "returned"} => \A s \in Stages : errg[s] # Running
    /\ sup = "sleep" => restarts[Len(restarts)] = FirstError

\* The queuer failed first, the other two stages were cancelled, and iterate
\* returned the error of the queuer.
C8_Witness ==
    /\ sup = "sleep"
    /\ errg.order[1] = "queue"
    /\ errg.queue = ErrPublish
    /\ errg.subscribe = ErrCanceled
    /\ errg.filter = ErrCanceled
    /\ restarts = <<ErrPublish>>

\* The CIDs of the events afterPut has emitted, in order.
RECURSIVE EmittedUpTo(_)
EmittedUpTo(n) ==
    IF n = 0 THEN <<>>
    ELSE EmittedUpTo(n - 1) \o [i \in 1..Len(afterPut(feed[n])) |-> afterPut(feed[n])[i].CID]

Emitted == EmittedUpTo(fed)

\* The distinct elements of a sequence, in the order of their first appearance.
RECURSIVE FirstAppearances(_)
FirstAppearances(seq) ==
    IF seq = <<>> THEN <<>>
    ELSE LET init == FirstAppearances(SubSeq(seq, 1, Len(seq) - 1))
             last == seq[Len(seq)]
         IN  IF \E n \in 1..Len(init) : init[n] = last THEN init ELSE Append(init, last)

ValidCID(cid) == cid \notin InvalidCIDs

\* One message per distinct valid CID, in the order of first appearance.
Expected == FirstAppearances(SelectSeq(Emitted, ValidCID))

IsPrefix(a, b) == Len(a) <= Len(b) /\ a = SubSeq(b, 1, Len(a))

\* Nothing is on its way between the bus and the broker.
Quiescent == bus = <<>> /\ held = NoHeld /\ sniffed = <<>> /\ filtered = <<>>

NoStageError == iteration <= 1 /\ errg.err = Nil

\* Every event emitted reached the subscription and was not dropped from it.
NoEventLost == Len(Emitted) = taken + Len(bus)

DistinctCIDs == {Emitted[n] : n \in 1..Len(Emitted)}

ExactlyOncePerCID ==
    /\ IsPrefix(published, Expected)
    /\ Quiescent => published = Expected

\* C9, as stated (for events that all reach the subscriber): within one
\* LastSeenExpiration window and without a stage error, the broker receives
\* exactly one message per distinct valid CID, in the order of first
\* appearance.
C9_AsStated ==
    NoStageError /\ NoEventLost /\ now <= LastSeenExpiration => ExactlyOncePerCID

\* C9, with the conditions it needs: for events that are emitted while the
\* subscription is open and not dropped by the bus, of at most
\* LastSeenPruneLen distinct CIDs, within one LastSeenExpiration window and
\* without a stage error, the broker receives exactly one message per distinct
\* valid CID, in the order of first appearance.
C9_ExactlyOncePerCID ==
    /\ NoStageError
    /\ NoEventLost
    /\ Cardinality(DistinctCIDs) <= LastSeenPruneLen
    /\ now <= LastSeenExpiration
    => ExactlyOncePerCID

\* Two CIDs were sniffed, one of them twice; the duplicate was rejected and
\* both were published, in order.
C9_Witness ==
    /\ NoStageError /\ NoEventLost /\ Quiescent
    /\ Cardinality(DistinctCIDs) = LastSeenPruneLen
    /\ Len(Emitted) > Cardinality(DistinctCIDs)
    /\ rejected > 0
    /\ published = <<"QmA", "QmB">>

\* Every event the subscriber took from the bus is in the hands of a stage,
\* in a channel, rejected by the filters or published.
NothingDropped ==
    taken = Len(held.subscribe) + Len(sniffed) + Len(held.filter) + rejected
            + Len(filtered) + Len(published)

OnlyPaused ==
    /\ restarts = <<>>
    /\ errg.err = Nil
    /\ sup \in {"start", "iterate"}
    /\ NothingDropped

\* C10, as stated: however slow the queuer, as long as the parent context is
\* live and no publish fails, no stage returns an error, no event taken from
\* the bus is dropped and the pipeline is not restarted.
C10_AsStated ==
    ctxErr = Nil /\ ErrPublish \notin StageErrors => OnlyPaused

\* C10, with the condition it needs: however slow the queuer, as long as the
\* parent context is live, no publish fails and no send of the handler stays
\* blocked for handleTimeout, no stage returns an error, no event taken from
\* the bus is dropped and the pipeline is not restarted.
C10_BackpressureOnlyPauses ==
    ctxErr = Nil /\ ErrPublish \notin StageErrors /\ ErrDeadline \notin StageErrors
        => OnlyPaused

\* Both channels are full and the filter and the handler are blocked on their
\* sends, with no error.
C10_Witness ==
    /\ ctxErr = Nil /\ StageErrors = {Running}
    /\ Len(filtered) = BufferSize
    /\ held.filter # <<>>
    /\ Len(sniffed) = BufferSize
    /\ held.subscribe # <<>>
    /\ OnlyPaused

(***************************************************************************)
(* Properties of the event source.                                         *)
(***************************************************************************)
\* C11: afterPut never fails a write that succeeded: for every call whose
\* write error is nil it returns nil, whatever the key and whether or not the
\* emit fails; for every call whose write error is not nil it returns that
\* error.
C11_AfterPutKeepsWriteResult ==
    \A n \in 1..Len(puts) : puts[n].ret = puts[n].err

\* afterPut was called for a provider key after a successful write and the
\* emit failed, and it was called after a failed write.
C11_Witness ==
    /\ \E n \in 1..Len(puts) :
            /\ puts[n].key = "QmA"
            /\ puts[n].err = Nil
            /\ puts[n].emit = ErrEmit
            /\ puts[n].ret = Nil
    /\ \E n \in 1..Len(puts) : puts[n].err = ErrWrite /\ puts[n].ret = ErrWrite

(***************************************************************************)
(* Properties of the directory expander under panics.                      *)
(***************************************************************************)
\* C19: a panic in the Ls producer or in the entry consumer is never
\* swallowed: Wait eventually returns and the panic is raised again in the
\* caller of crawlDir.
C19_PanicReRaised ==
    \A w \in AllWorkers :
        (dir[w].panicVar # Nil) ~> (pc[w] = "done" /\ ret[w] = Panic)


(***************************************************************************)
(* Properties of the commands and of the signal handler.                   *)
(***************************************************************************)
Exited == exit # NoExit

\* The pool was started, the first signal cancelled the context and the
\* command returned, with no second signal forcing the exit.
CleanShutdown ==
    /\ command = "crawl"
    /\ started
    /\ cancels = 1
    /\ exit.by = "main"

\* C25: the crawl command exits with code 0 on a clean shutdown and with
\* code 1 on any error.
C25_ExitCodes ==
    (command = "crawl" /\ Exited) =>
        exit.code = (IF CleanShutdown THEN 0 ELSE 1)

\* The crawl command never exits with code 0.
CrawlExitsWithOne == (command = "crawl" /\ Exited) => exit.code = 1

\* The add command exits with code 0 when AddHash returned nil.
AddExitsWithZero == Exited /\ command = "add" /\ exit.code = 0

\* The process was ended by os.Exit(1) of the goroutine fail.
Forced == exit.by = "fail"

Cached(entries, cid) == \E n \in 1..Len(entries) : entries[n][1] = cid

\* The time the CID of the last call had been recorded at before the call.
RecordedBefore ==
    IF \E n \in 1..Len(lastCall.before) : lastCall.before[n][1] = lastCall.cid
    THEN (CHOOSE e \in {lastCall.before[n] : n \in 1..Len(lastCall.before)} :
            e[1] = lastCall.cid)[2]
    ELSE NoTime

Called == lastCall # NoCall

\* The contract of Seen with the window closed at age within: the call
\* returns true iff the CID is in the cache, recorded at most within ago.
SeenContract(within) ==
    Called =>
        /\ lastCall.seen <=> (/\ Cached(lastCall.before, lastCall.cid)
                              /\ lastCall.t - RecordedBefore <= within)
        /\ lastCall.seen => cache = lastCall.before
        /\ ~lastCall.seen =>
              /\ recorded[lastCall.cid] = lastCall.t
              /\ \E n \in 1..Len(cache) : cache[n] = <<lastCall.cid, lastCall.t>>
        /\ \A n \in 1..Len(cache) :
              /\ cache[n][2] = recorded[cache[n][1]]
              /\ \A k \in 1..Len(cache) : cache[k][1] = cache[n][1] => k = n

\* C27 as stated: Seen(cid) returns true iff cid was recorded less than
\* Expiration ago and has not been evicted.
C27_AsStated == SeenContract(LastSeenExpiration - 1)

\* C27: Seen(cid) returns true iff cid was recorded at most Expiration ago
\* and has not been evicted, and leaves the cache as it is; otherwise it
\* records cid with the current time and returns false.
C27_SeenContract == SeenContract(LastSeenExpiration)

\* A second occurrence at the end of the window was suppressed.
C27_Witness ==
    /\ Called
    /\ lastCall.seen
    /\ lastCall.t - RecordedBefore = LastSeenExpiration

\* An occurrence after the window was let through again.
C27_LetThrough ==
    /\ Called
    /\ ~lastCall.seen
    /\ Cached(lastCall.before, lastCall.cid)
    /\ lastCall.t - RecordedBefore > LastSeenExpiration

\* C28: the cache of the LastSeenFilter never holds more than 2 x PruneLen
\* entries.
C28_CacheBound == Len(cache) <= 2 * LastSeenPruneLen

\* A CID was recorded with the cache at capacity and every entry younger
\* than Expiration: expiry removed nothing and the oldest entry was evicted.
C28_Witness ==
    /\ Called
    /\ ~lastCall.seen
    /\ Len(lastCall.before) = LastSeenPruneLen
    /\ ~Cached(lastCall.before, lastCall.cid)
    /\ \A n \in 1..Len(lastCall.before) : ~Expired(lastCall.before[n], lastCall.t)
    /\ ~Cached(cache, lastCall.before[1][1])
    /\ Len(cache) = LastSeenPruneLen

(***************************************************************************)
(* Properties of the bulk indexer.                                         *)
(***************************************************************************)
\* The backend has applied the writes in the order of their submission.
InSubmissionOrder ==
    \A a, b \in 1..Len(applied) : a < b => applied[a].n < applied[b].n

\* C29: two writes to the same document id submitted one after the other by
\* the same thread are applied to the backend in submission order, also
\* with more than one flush worker.
C29_SubmissionOrder == InSubmissionOrder

\* With one flush worker the writes are applied in submission order.
OneWorkerOrdered == numWorkers = 1 => InSubmissionOrder

\* Two writes of the thread have been applied with one flush worker.
OneWorkerApplied == numWorkers = 1 /\ Len(applied) >= 2

(***************************************************************************)
(* Properties of the subscription.                                         *)
(***************************************************************************)
\* Subscribe is running in the current iteration.
SubscribeRuns == sup = "iterate" /\ errg.subscribe = Running

\* Subscribe has returned, or the process has panicked.
SubscribeOver == errg.subscribe # Running \/ sup = "panic"

\* C30: Subscribe hands each event to the handler and goes on with the next
\* one exactly when the handler returned nil, that is, sent the provider;
\* the first handler error, the deadline error of a send that stayed
\* blocked included, ends the loop and is what Subscribe returns; Subscribe
\* also returns when its context is done or the channel of the subscription
\* is closed; the handler returns in any case; Subscribe never returns nil.
C30_Subscribe ==
    /\ [](errg.subscribe # Nil)
    /\ [][(stage.subscribe = "handle" /\ stage'.subscribe = "wait") =>
            /\ Len(sniffed') = Len(sniffed) + 1
            /\ sniffed'[Len(sniffed')].ID = held.subscribe[1].CID
            /\ errg'.subscribe = Running]_vars
    /\ [][(stage.subscribe = "handle" /\ stage'.subscribe = "returned") =>
            /\ errg'.subscribe \in {ErrCanceled, ErrDeadline}
            /\ errg'.subscribe = ErrCanceled => CtxDone
            /\ errg'.subscribe = ErrDeadline => Len(sniffed) >= BufferSize
            /\ sniffed' = sniffed]_vars
    /\ [][(stage.subscribe = "wait" /\ stage'.subscribe = "returned") =>
            /\ errg'.subscribe \in {ErrCanceled, ErrBus}
            /\ errg'.subscribe = ErrCanceled => CtxDone
            /\ errg'.subscribe = ErrBus => subClosed /\ bus = <<>>]_vars
    /\ (SubscribeRuns /\ stage.subscribe = "handle") ~>
            (stage.subscribe # "handle" \/ sup = "panic")
    /\ (SubscribeRuns /\ CtxDone) ~> SubscribeOver
    /\ (SubscribeRuns /\ subClosed) ~> SubscribeOver

\* Subscribe handled an event, went on, and returned the deadline error of
\* the handler of the next event.
C30_Witness ==
    /\ sup = "iterate"
    /\ errg.subscribe = ErrDeadline
    /\ taken >= 2
    /\ Len(sniffed) = BufferSize

\* Subscribe returned because the channel of the subscription was closed.
C30_Closed == errg.subscribe = ErrBus /\ taken >= 1

(***************************************************************************)
(* Properties of afterPut.                                                 *)
(***************************************************************************)
\* The write succeeded and the key is a provider key whose CID and PeerID
\* parse.
ProviderPut(c) ==
    /\ c.err = Nil
    /\ c.key # OtherKey
    /\ c.key # BadCidKey
    /\ c.key # BadPeerKey

\* The call emitted exactly one event, with the CID and the PeerID of the key.
EmittedOne(c) == c.events = <<[CID |-> c.key, PeerID |-> "peer1"]>>

\* C33, as stated: afterPut emits exactly one event with the parsed CID and
\* PeerID iff the write error is nil, the key is a provider key and CID and
\* PeerID parse; in every other case it emits no event.
C33_AsStated ==
    \A n \in 1..Len(puts) :
        IF ProviderPut(puts[n]) THEN EmittedOne(puts[n]) ELSE puts[n].events = <<>>

\* C33: afterPut emits exactly one event with the parsed CID and PeerID iff
\* the write error is nil, the key is a provider key, CID and PeerID parse
\* and Emit returns no error; in every other case it emits no event.
C33_EmitsOnce ==
    \A n \in 1..Len(puts) :
        IF ProviderPut(puts[n]) /\ puts[n].emit = Nil
        THEN EmittedOne(puts[n])
        ELSE puts[n].events = <<>>

\* One put of a provider record emitted its event, and one put of a key whose
\* PeerID does not parse emitted none.
C33_Witness ==
    /\ \E n \in 1..Len(puts) : ProviderPut(puts[n]) /\ EmittedOne(puts[n])
    /\ \E n \in 1..Len(puts) :
            puts[n].key = BadPeerKey /\ puts[n].err = Nil /\ puts[n].emit = Nil

(***************************************************************************)
(* Properties of the direct Index.Get.                                     *)
(***************************************************************************)
\* The document was found: the body decodes and says so.
Found(r) == r.err = Nil /\ r.body /\ r.found

\* The backend answered 404 with a body that says not found.
NotFound(r) == r.err = Nil /\ r.body /\ ~r.found /\ r.status = 404

\* C34: Get returns (true, decoding error) when the document is found but
\* its source fails to decode, (true, nil) when it is found and decodes,
\* (false, nil) on 404, and (false, error) in every other case.
C34_GetResults ==
    \A n \in 1..Len(gets) :
        LET r == gets[n].response
            out == gets[n].result
        IN  CASE Found(r) /\ ~r.source -> out = GetResult(TRUE, ErrDecodingSource)
              [] Found(r) /\ r.source -> out = GetResult(TRUE, Nil)
              [] NotFound(r) -> out = GetResult(FALSE, Nil)
              [] OTHER -> ~out.found /\ out.err # Nil

\* Every case of C34 but the first one.
GetResultsButDecoding ==
    \A n \in 1..Len(gets) :
        LET r == gets[n].response
            out == gets[n].result
        IN  CASE Found(r) /\ ~r.source -> out = GetResult(FALSE, ErrDecodingSource)
              [] Found(r) /\ r.source -> out = GetResult(TRUE, Nil)
              [] NotFound(r) -> out = GetResult(FALSE, Nil)
              [] OTHER -> ~out.found /\ out.err # Nil

\* A get found its document, and a get had a response of status 500.
GetCases ==
    /\ \E n \in 1..Len(gets) : Found(gets[n].response) /\ gets[n].response.source
    /\ \E n \in 1..Len(gets) :
            gets[n].response.status = 500 /\ gets[n].result.err = ErrUnexpectedStatus
(***************************************************************************)
(* Properties of Index.Index.                                              *)
(***************************************************************************)
\* The bulk indexer flushes a create of a document the index already holds.
DuplicateCreate ==
    /\ flushed < Len(issued)
    /\ flushed' = flushed + 1
    /\ issued[flushed + 1].action = "create"
    /\ issued[flushed + 1].id \in DOMAIN idx[issued[flushed + 1].index]

Pairs(refs) == {refs[k] : k \in DOMAIN refs}

\* C36: References are never lost: a pair that is part of the stored
\* References of a document stays there for as long as the document is
\* stored, whatever Crawl calls follow, of one worker or of two.
C36_ReferencesKept ==
    [][\A i \in IndexNames : \A id \in DOMAIN idx[i] \cap DOMAIN idx'[i] :
            Pairs(idx[i][id].References) \subseteq Pairs(idx'[i][id].References)]_vars

\* Both workers returned nil, every item is flushed, and the stored document
\* has the reference of one delivery only although two were delivered.
OneReferenceOfTwo ==
    /\ \A w \in AllWorkers : pc[w] = "done" /\ ret[w] = Nil
    /\ flushed = Len(issued)
    /\ res["w1"].Parent # res["w2"].Parent
    /\ "QmF" \in DOMAIN idx[Files]
    /\ Len(idx[Files]["QmF"].References) = 1
(***************************************************************************)
(* Properties of the sniffer across restarts.                              *)
(***************************************************************************)
\* The CIDs of the provider records of the feed.
FeedCIDs == {cidOf(feed[n]) : n \in {k \in 1..Len(feed) : isProviderKey(feed[k])}}

\* The feed has no more CIDs than the cache of the LastSeenFilter holds:
\* nothing is evicted. The clock of the sniffer stands still, so that every
\* occurrence is within LastSeenExpiration of every other.
WithinCache == Cardinality(FeedCIDs) <= LastSeenPruneLen

\* No CID is published twice, and the filter lets no CID through that is
\* published already.
Deduplicated ==
    /\ \A m, n \in 1..Len(published) : m # n => published[m] # published[n]
    /\ \A n \in 1..Len(published) :
            held.filter # <<>> => held.filter[1].ID # published[n]

DedupWithinIteration == WithinCache /\ iteration <= 1 => Deduplicated

\* The filter of the first iteration rejected the second occurrence of a
\* published CID.
DedupHappened ==
    /\ WithinCache
    /\ FeedCIDs \cap InvalidCIDs = {}
    /\ iteration = 1
    /\ rejected > 0
    /\ \E n \in 1..Len(published) : \E c \in 1..Len(cache) : cache[c][1] = published[n]
\* Sniff is about to restart with a provider in one of its channels.
CarriedOver ==
    /\ sup = "sleep"
    /\ iteration < MaxIterations
    /\ ctxErr = Nil
    /\ sniffed # <<>> \/ filtered # <<>>

\* Nothing is left between the subscriber and the broker, and Sniff runs.
PipelineDrained ==
    /\ sup # "panic"
    /\ sniffed = <<>>
    /\ filtered = <<>>
    /\ held.filter = <<>>

\* C38: a restart loses no provider that is inside the pipeline: what is in
\* the sniffed or the filtered channel when Sniff restarts is eventually
\* filtered out or published, unless the parent context is cancelled (or
\* the restarted pipeline fails in its turn).
C38_RestartLosesNothing ==
    CarriedOver ~> (PipelineDrained \/ ctxErr # Nil \/ Len(restarts) >= MaxIterations)

\* The channels are those of Sniff: the end of an iteration and the start of
\* the next leave what is in them.
ChannelsKept ==
    [][iterateReturn \/ iterate => sniffed' = sniffed /\ filtered' = filtered]_vars
(***************************************************************************)
(* Properties of a directory expansion that fails.                         *)
(***************************************************************************)
\* The expansion of the directory of w has ended with an error that is no
\* invalid resource, and Crawl has returned.
ExpansionFailed(w) ==
    /\ pc[w] = "done"
    /\ dir[w].producer # Running
    /\ dir[w].consumer # Running
    /\ dir[w].panicVar = Nil
    /\ dir[w].err # Nil
    /\ ~IsInvalidResource(dir[w].err)

\* The children the consumer of w received and handed on without an error:
\* all it received, but the last one when its publish or its write failed.
HandedOn(w) ==
    IF dir[w].consumer \in {ErrPublish, ErrIndexer}
    THEN 1..(dir[w].recvd - 1)
    ELSE 1..dir[w].recvd

\* The children of w that go to a queue are in the queue.
ChildrenPublished(w) ==
    \A n \in HandedOn(w) :
        queueOf(dir[w].listed[n].Type) # Invalids =>
            \E k \in 1..Len(queued) :
                /\ queued[k].job = job[w]
                /\ queued[k].ID = dir[w].listed[n].ID
                /\ queued[k].queue = queueOf(dir[w].listed[n].Type)

\* C39: when the expansion of a directory ends with an error that is no
\* InvalidResource, Crawl returns that error and writes the directory to no
\* index, neither Directories nor Invalids; the children published before
\* the error stay published.
C39_FailedExpansion ==
    \A w \in workers :
        ExpansionFailed(w) =>
            /\ ret[w] = dir[w].err
            /\ ItemsOf(job[w], "create", res[w].ID) = {}
            /\ ItemsOf(job[w], "update", res[w].ID) = {}
            /\ invalid[w] = Nil
            /\ ChildrenPublished(w)

\* The publish of the second child failed: Crawl returned the publish error
\* with the first child in its queue and nothing written for the directory.
C39_Witness ==
    \E w \in workers :
        /\ ExpansionFailed(w)
        /\ dir[w].err = ErrPublish
        /\ dir[w].recvd = 2
        /\ Len(queued) = 1
        /\ queued[1].ID = dir[w].listed[1].ID
        /\ ItemsOfJob(job[w]) \subseteq ItemsOf(job[w], "delete", res[w].ID)

\* The expansion ended because Ls failed, and because no entry arrived
\* within DirEntryTimeout.
ExpansionErrors ==
    \E w \in workers : ExpansionFailed(w) /\ dir[w].err \in {ErrLs, ErrDeadline}
(***************************************************************************)
(* Properties of the iterations of Sniff.                                  *)
(***************************************************************************)
\* Every stage of the iteration has returned.
AllReturned == \A s \in Stages : stage[s] = "returned"

\* C40: at most one iteration is active at any time: an iteration starts
\* only when all three stages of the one before have returned, and between
\* two iterations no stage runs, so that one filter with its LastSeenFilter,
\* one subscriber and one queuer at most use the channels.
C40_OneIteration ==
    [][/\ iteration' # iteration => AllReturned
       /\ sup' \in {"sleep", "returned"} => AllReturned']_vars

\* The second iteration runs its three stages, the first one having ended
\* with a stage error.
C40_Witness ==
    /\ iteration = 2
    /\ Len(restarts) = 1
    /\ sup = "iterate"
    /\ \A s \in Stages : stage[s] # "returned"
====
